---- MODULE Spec2Model ----
(***************************************************************************)
(* The dialogue controller of the WhatsApp bot: the per-conversation       *)
(* session map and the message handler that drives it, in its two          *)
(* transports: src/index.ts (whatsapp-web.js, "wwebjs") and                *)
(* src/unnamed/part_000 (Baileys, "baileys").                              *)
(*                                                                         *)
(* A handler is an async function: it runs without interruption up to an   *)
(* await, and other handlers run while it waits.  Each action below is one *)
(* such uninterrupted run: from the arrival of a message, or from the      *)
(* completion of the awaited call, to the next await that another handler  *)
(* can observe, or to the handler's return.  An await that is followed     *)
(* only by a return, and two awaits with no statement between them, are    *)
(* folded into the run before them: nothing the handler does after them    *)
(* reads or writes shared state.                                           *)
(***************************************************************************)
EXTENDS Integers, Sequences, FiniteSets, TLC

\* ------------------------------------------------------------------ bounds
\* the longest result list the Search Resolver returns in the model
MaxResults == 11
\* numeric replies range over 0..MaxSel
MaxSel == 2
\* the clock (Date.now()) runs from 0 to MaxTime
MaxTime == 1
\* the inactivity window of the specification (section 4.5, Staleness), in
\* ticks of the clock: a session is stale when more than this many ticks
\* have passed since its timestamp.  The source has no such constant.
InactivityWindow == 0

\* ------------------------------------------------------- program constants
\* results.slice(0, 10)
SliceEnd == 10

\* --------------------------------------------------------- JavaScript values
\* undefined / NaN / a deleted key; a present value x is <<x>>
Undefined == <<>>
NaN == <<>>
Some(x) == <<x>>
Min(a, b) == IF a < b THEN a ELSE b

\* arr[idx] of a JavaScript array: undefined outside 0..length-1
ArrayGetClamped(arr, idx) ==
    IF Len(arr) = 0 THEN Undefined
    ELSE IF idx < 0 THEN Undefined
    ELSE Some(arr[Min(idx, Len(arr) - 1) + 1])
ArrayGet(arr, idx) ==
    IF idx >= 0 /\ idx < Len(arr) THEN Some(arr[idx + 1]) ELSE Undefined

\* arr.slice(0, end)
SliceOffByOne(arr, end) == SubSeq(arr, 1, Min(end + 1, Len(arr)))
Slice(arr, end) == SubSeq(arr, 1, Min(end, Len(arr)))

\* ------------------------------------------------------------------- data
Chats == {"c1", "c2"}
Impls == {"wwebjs", "baileys"}
\* the handler invocations that can be in flight at the same time: the
\* claims about interleavings are about two handlers
Handlers == {1, 2}
Selections == 0..MaxSel

MovieSearchResult(i) == [title |-> i, url |-> i]
DownloadLink(i) == [label |-> i, url |-> i]
Asc(n) == [i \in 1..n |-> MovieSearchResult(i)]

\* what searchNkiri can return: nothing, one result, and a list longer than
\* the slice
SearchOutcomes == {<<>>, <<MovieSearchResult(MaxResults + 1)>>, Asc(MaxResults)}
\* what getDownloadLinks can return: nothing, one link, two links
LinkOutcomes ==
    {<<>>, <<DownloadLink(1)>>, <<DownloadLink(2), DownloadLink(1)>>}

\* An inbound message: its attachment, and what the handler reads off its
\* trimmed lower-cased text: startsWith('search '), parseInt(text),
\* extractMediaUrl(text), and the sticker / background-removal words.
Text(search, num, url, cmd) ==
    [search |-> search, num |-> num, url |-> url, cmd |-> cmd]
Msg(att, text) == [att |-> att, text |-> text]
\* the messages of the model: plain texts ("search x", "search <link>", a
\* number, a number and a link, any other text, a link), an image captioned
\* "sticker", "removebg" or with a number, a GIF, and another attachment
\* (a video that is no GIF)
Messages ==
    {Msg("none", Text(TRUE, NaN, u, "none")) : u \in BOOLEAN}
    \cup {Msg("none", Text(FALSE, Some(n), FALSE, "none")) : n \in Selections}
    \cup {Msg("none", Text(FALSE, Some(1), TRUE, "none"))}
    \cup {Msg("none", Text(FALSE, NaN, u, "none")) : u \in BOOLEAN}
    \cup {Msg("image", Text(FALSE, NaN, FALSE, c)) : c \in {"sticker", "removebg"}}
    \cup {Msg("image", Text(FALSE, Some(1), FALSE, "none"))}
    \cup {Msg("gif", Text(FALSE, NaN, FALSE, "none"))}
    \cup {Msg("other", Text(FALSE, NaN, FALSE, "none"))}

Reply(kind, body) == [kind |-> kind, body |-> body]
Titles(results) == [i \in 1..Len(results) |-> results[i].title]

\* ------------------------------------------------------------------ state
VARIABLES
    impl,       \* which of the two controllers runs
    chatIds,    \* the conversations that send messages in this run
    sessions,   \* const sessions: Record<string, Session>
    handlers,   \* the handler invocations in flight, with their locals
    now,        \* Date.now()
    last        \* the handler step just taken: the message it routed or
                \* the value the awaited call returned, the branch it took,
                \* whether the handler waits or has ended, and what it has
                \* sent so far
VARIABLES
    resolver    \* one call of getDownloadLinks: where it is, the detail
                \* page it was given, its locals finalLinks and
                \* downloadPages, the loop index, the value it returned
VARIABLES
    transfer,   \* one call of downloadAndSend: where it is, its locals
                \* totalBytes, downloadedBytes and lastLoggedProgress, what
                \* it has sent to the conversation, and the files it has
                \* left in the temporary directory
    sender,     \* one call of sendMessage (part_000): the loop index, the
                \* connection flag, and what the call has done so far
    menu        \* one building of the link menu: the label, the position
                \* and the parent title it is given, and the lines built
                \* and the outcome of the request that completed last
vars ==
    <<impl, chatIds, sessions, handlers, now, last, resolver, transfer, sender,
      menu>>

Idle ==
    [pc |-> "idle", chat |-> "", branch |-> "", msg |-> Undefined,
     sref |-> "none", movie |-> Undefined, link |-> Undefined, out |-> <<>>,
     tempFile |-> Undefined]

NoStep ==
    [chat |-> "", msg |-> Undefined, ret |-> Undefined, branch |-> "",
     status |-> "none", out |-> <<>>]

InFlight(h) == handlers[h].pc # "idle"

\* no call of getDownloadLinks is being followed
NotCalled ==
    [pc |-> "idle", page |-> <<>>, finalLinks |-> <<>>,
     downloadPages |-> <<>>, i |-> 0, result |-> <<>>, ev |-> Undefined]

\* no call of downloadAndSend is being followed
NoTransfer ==
    [pc |-> "idle", header |-> Undefined, totalBytes |-> Some(0),
     downloadedBytes |-> 0,
     lastLoggedProgress |-> -1, out |-> <<>>, files |-> {},
     rethrow |-> FALSE, cause |-> "none", everyPercent |-> TRUE]

\* no call of sendMessage is being followed
NotSending ==
    [pc |-> "idle", retries |-> 0, i |-> 0, isConnected |-> FALSE,
     polls |-> 0, invocations |-> 0, backoffs |-> 0, result |-> Undefined,
     ev |-> "none", everOpen |-> FALSE]

\* no menu of links is being built
NoMenu == [label |-> <<>>, title |-> <<>>, i |-> 0, lines |-> <<>>]

\* The identity of session objects.  A handler's `session` local is a
\* reference to the object it read from the map.  All that can be observed
\* of the reference is whether the map still holds that same object: sref
\* is "current" while it does and "detached" once the map entry has been
\* overwritten by a new object or deleted.  Nothing reads a detached object:
\* every read of a session field follows a lookup sessions[chatId] in the
\* same run.  Detach(hs, c) is the effect that replacing or deleting the
\* entry of c has on the references other handlers hold.
Detach(hs, c) ==
    [k \in DOMAIN hs |->
        IF hs[k].chat = c /\ hs[k].sref = "current"
        THEN [hs[k] EXCEPT !.sref = "detached"] ELSE hs[k]]

NewSessionUnsliced(results, t) ==
    [state |-> "SEARCH_RESULTS", lastResults |-> results,
     lastLinks |-> Undefined, selectedMovie |-> Undefined,
     selectedLink |-> Undefined, timestamp |-> t]
NewSession(results, t) ==
    [state |-> "SEARCH_RESULTS",
     lastResults |-> Slice(results, SliceEnd),
     lastLinks |-> Undefined, selectedMovie |-> Undefined,
     selectedLink |-> Undefined, timestamp |-> t]

TypeOK ==
    /\ impl \in Impls
    /\ chatIds \subseteq Chats
    /\ now \in 0..MaxTime
    /\ \A c \in Chats : sessions[c] = Undefined \/ Len(sessions[c]) = 1
    /\ \A h \in Handlers : handlers[h].pc \in
        {"idle", "await_downloadMedia", "await_sticker", "await_removebg",
         "await_search", "await_links", "await_send_uri", "await_send_start",
         "await_stream", "await_media"}
    /\ resolver.pc \in {"idle", "fetch", "get_page", "post", "done"}

InitCommon ==
    /\ impl \in Impls
    /\ sessions = [c \in Chats |-> Undefined]
    /\ handlers = [h \in Handlers |-> Idle]
    /\ now = 0
    /\ last = NoStep
    /\ resolver = NotCalled
    /\ transfer = NoTransfer
    /\ sender = NotSending
    /\ menu = NoMenu

Init == InitCommon /\ chatIds = {"c1"}

\* the references after `delete sessions[chatId]` has left the map as sess
AfterDelete(hs, c, sess) == IF sess[c] = Undefined THEN Detach(hs, c) ELSE hs
RefAfterDelete(c, sess) == IF sess[c] = Undefined THEN "detached" ELSE "current"

\* const tempFile = path.join(tmpdir(), `movie_${Date.now()}.mp4`): the
\* staging file of a call of downloadAndSend is named after the clock at the
\* call.  hs[h] is the handler before the step: a handler already inside
\* downloadAndSend keeps its tempFile.
TempFile(hs, h, pc) ==
    IF pc \in {"await_send_start", "await_stream"}
    THEN IF hs[h].pc \in {"await_send_start", "await_stream"}
         THEN hs[h].tempFile ELSE Some(now)
    ELSE Undefined

\* ------------------------------------------------- a handler's control flow
\* The handler waits at `pc`; `out` is what it has sent so far.  `lm` is the
\* message when this run of the handler routed it, and `ret` the value the
\* awaited call returned when the run is the completion of an await.
Await(hs, h, c, lm, ret, branch, pc, sref, movie, link, out) ==
    /\ handlers' = [hs EXCEPT ![h] =
            [pc |-> pc, chat |-> c, branch |-> branch, msg |-> Undefined,
             sref |-> sref, movie |-> movie, link |-> link, out |-> out,
             tempFile |-> TempFile(hs, h, pc)]]
    /\ last' = [chat |-> c, msg |-> lm, ret |-> ret, branch |-> branch,
                status |-> "awaiting", out |-> out]

\* the handler returns (status "returned") or ends in a rejected promise
\* (status "threw")
End(hs, h, c, lm, ret, branch, status, out) ==
    /\ handlers' = [hs EXCEPT ![h] = Idle]
    /\ last' = [chat |-> c, msg |-> lm, ret |-> ret, branch |-> branch,
                status |-> status, out |-> out]

IsGif(m) == m.att = "gif"
IsImage(m) == m.att = "image"
WantsStickerNever(t) == FALSE
WantsSticker(t) == t.cmd = "sticker"
WantsBgRemove(t) == t.cmd = "removebg"
\* msg.hasMedia (index.ts); isGif || isImage (part_000)
HasMedia(m) ==
    IF impl = "wwebjs" THEN m.att # "none" ELSE IsGif(m) \/ IsImage(m)
\* extractMediaUrl(msg.body) (index.ts); part_000 looks only at the text of
\* a conversation / extendedTextMessage, which carries no attachment
HasMediaUrl(m) ==
    IF impl = "wwebjs" THEN m.text.url ELSE m.att = "none" /\ m.text.url

\* delete sessions[chatId]
DeleteAll(sess, c) == [k \in DOMAIN sess |-> Undefined]
Delete(sess, c) == [sess EXCEPT ![c] = Undefined]

\* ------------------------------------------------------ session updates
\* results.length === 0
NoResultsNever(results) == FALSE
NoResults(results) == Len(results) = 0

\* sessions[chatId] = { state: 'SEARCH_RESULTS', lastResults: ..., timestamp }
AfterSearch(sess, c, results, t) ==
    [sess EXCEPT ![c] = Some(NewSession(results, t))]

\* session.lastResults![selection - 1]
PickMovie(lastResults, selection) == ArrayGet(lastResults, selection - 1)

\* links.length === 0
NoLinksNever(links) == FALSE
NoLinks(links) == Len(links) = 0

\* session.state = 'EPISODE_SELECTION'; session.lastLinks = links; ...
\* `session` is the object the handler read from the map before it awaited
\* getDownloadLinks.  If the map holds another object by now, or none (sref
\* is "detached"), the assignments change an object nothing reads.
AfterLinksNoMovie(sess, c, sref, links, movie, t) ==
    IF sref = "current"
    THEN [sess EXCEPT ![c] = Some([sess[c][1] EXCEPT
            !.state = "EPISODE_SELECTION", !.lastLinks = Some(links),
            !.timestamp = t])]
    ELSE sess
AfterLinksByKey(sess, c, sref, links, movie, t) ==
    [sess EXCEPT ![c] = Some(
        [(IF sess[c] = Undefined THEN NewSession(<<>>, t) ELSE sess[c][1])
         EXCEPT !.state = "EPISODE_SELECTION", !.lastLinks = Some(links),
                !.selectedMovie = Some(movie), !.timestamp = t])]
AfterLinksKeepStage(sess, c, sref, links, movie, t) ==
    IF sref = "current"
    THEN [sess EXCEPT ![c] = Some([sess[c][1] EXCEPT
            !.state = IF @ = "DOWNLOAD_METHOD_SELECTION"
                      THEN @ ELSE "EPISODE_SELECTION",
            !.lastLinks = Some(links),
            !.selectedMovie = Some(movie), !.timestamp = t])]
    ELSE sess
AfterLinks(sess, c, sref, links, movie, t) ==
    IF sref = "current"
    THEN [sess EXCEPT ![c] = Some([sess[c][1] EXCEPT
            !.state = "EPISODE_SELECTION", !.lastLinks = Some(links),
            !.selectedMovie = Some(movie), !.timestamp = t])]
    ELSE sess

\* session.lastLinks![selection - 1]
PickLinkOffByOne(lastLinks, selection) == ArrayGet(lastLinks, selection)
PickLink(lastLinks, selection) == ArrayGet(lastLinks, selection - 1)

\* session.state = 'DOWNLOAD_METHOD_SELECTION'; session.selectedLink = link
AfterEpisodeNoStamp(sess, c, link, t) ==
    [sess EXCEPT ![c] = Some([sess[c][1] EXCEPT
        !.state = "DOWNLOAD_METHOD_SELECTION", !.selectedLink = Some(link)])]
AfterEpisode(sess, c, link, t) ==
    [sess EXCEPT ![c] = Some([sess[c][1] EXCEPT
        !.state = "DOWNLOAD_METHOD_SELECTION", !.selectedLink = Some(link),
        !.timestamp = t])]

\* selection === 2: delete sessions[chatId], then downloadAndSend
AfterChoice2Kept(sess, c) == sess
AfterChoice2(sess, c) == Delete(sess, c)

\* selection === 1 / selection === 2
WantsLink(n) == n = 1
WantsFileLoose(n) == n # 1
WantsFile(n) == n = 2

\* !isNaN(selection) && sessions[chatId]
IsSelectionUnlessLink(t, c) ==
    t.num # NaN /\ sessions[c] # Undefined /\ ~t.url
IsSelection(t, c) == t.num # NaN /\ sessions[c] # Undefined

\* ------------------------------------------------------------ the handler
\* 3. Selection Handling: !isNaN(selection) && sessions[chatId]
SelectionHandling(h, c, m, n) ==
    LET session == sessions[c][1] IN
    CASE session.state = "SEARCH_RESULTS" ->
            LET movie == PickMovie(session.lastResults, n) IN
            IF movie = Undefined
            THEN /\ End(handlers, h, c, Some(m), Undefined, "invalid_title", "returned",
                        <<Reply("Invalid", <<>>)>>)
                 /\ UNCHANGED sessions
            ELSE /\ Await(handlers, h, c, Some(m), Undefined, "title", "await_links", "current", movie,
                          Undefined, <<Reply("Opening", <<movie[1].title>>)>>)
                 /\ UNCHANGED sessions
      [] session.state = "EPISODE_SELECTION" ->
            LET link == PickLink(session.lastLinks[1], n) IN
            IF link = Undefined
            THEN /\ End(handlers, h, c, Some(m), Undefined, "invalid_link", "returned",
                        <<Reply("Invalid", <<>>)>>)
                 /\ UNCHANGED sessions
            ELSE /\ sessions' = AfterEpisode(sessions, c, link[1], now)
                 /\ End(handlers, h, c, Some(m), Undefined, "link_chosen", "returned",
                        <<Reply("ChoiceMenu", <<1, 2>>)>>)
      [] session.state = "DOWNLOAD_METHOD_SELECTION" ->
            LET link == session.selectedLink IN
            IF WantsLink(n)
            THEN /\ Await(handlers, h, c, Some(m), Undefined, "choice1", "await_send_uri",
                          "current", Undefined, link,
                          <<Reply("Uri", <<link[1].url>>)>>)
                 /\ UNCHANGED sessions
            ELSE IF WantsFile(n)
            THEN /\ sessions' = AfterChoice2(sessions, c)
                 /\ Await(AfterDelete(handlers, c, sessions'), h, c, Some(m), Undefined,
                          "choice2", "await_send_start",
                          RefAfterDelete(c, sessions'), Undefined, link,
                          <<Reply("StartingDownload", <<link[1].label>>)>>)
            ELSE /\ End(handlers, h, c, Some(m), Undefined, "choice_other", "returned",
                        <<Reply("Choose1or2", <<>>)>>)
                 /\ UNCHANGED sessions

\* the body of the message handler from "1. Handle GIF/Image to Sticker" on
Route(h, c, m) ==
    LET t == m.text IN
    IF IsGif(m) \/ (IsImage(m) /\ WantsSticker(t))
    THEN /\ Await(handlers, h, c, Some(m), Undefined, "sticker", "await_sticker",
                  "none", Undefined, Undefined,
                  <<Reply("Converting", <<>>)>>)
         /\ UNCHANGED sessions
    ELSE IF IsImage(m) /\ WantsBgRemove(t)
    THEN /\ Await(handlers, h, c, Some(m), Undefined, "removebg", "await_removebg",
                  "none", Undefined, Undefined,
                  <<Reply("RemovingBackground", <<>>)>>)
         /\ UNCHANGED sessions
    ELSE IF t.search
    THEN /\ Await(handlers, h, c, Some(m), Undefined, "search", "await_search",
                  "none", Undefined, Undefined,
                  <<Reply("Searching", <<>>)>>)
         /\ UNCHANGED sessions
    ELSE IF IsSelection(t, c)
    THEN SelectionHandling(h, c, m, t.num[1])
    ELSE IF HasMediaUrl(m)
    THEN /\ Await(handlers, h, c, Some(m), Undefined, "media", "await_media", "none",
                  Undefined, Undefined, <<Reply("Downloading", <<>>)>>)
         /\ UNCHANGED sessions
    ELSE IF ~HasMedia(m) /\ ~t.search
    THEN /\ End(handlers, h, c, Some(m), Undefined, "help", "returned", <<Reply("Help", <<>>)>>)
         /\ UNCHANGED sessions
    ELSE /\ End(handlers, h, c, Some(m), Undefined, "ignored", "returned", <<>>)
         /\ UNCHANGED sessions

\* client.on('message', async (msg) => ...) / handleMessage(chatId, message):
\* a message of conversation c arrives and its handler runs to its first
\* await.  index.ts awaits msg.downloadMedia() before anything else when the
\* message has an attachment.
Receive(h, c, m) ==
    /\ c \in chatIds
    /\ ~InFlight(h)
    /\ \A k \in Handlers : k < h => InFlight(k)
    /\ IF impl = "wwebjs" /\ m.att # "none"
       THEN /\ handlers' = [handlers EXCEPT ![h] =
                    [Idle EXCEPT !.pc = "await_downloadMedia", !.chat = c,
                                 !.branch = "downloadMedia", !.msg = Some(m)]]
            /\ last' = [NoStep EXCEPT !.chat = c, !.branch = "downloadMedia",
                                      !.status = "awaiting"]
            /\ UNCHANGED sessions
       ELSE Route(h, c, m)
    /\ UNCHANGED <<menu, transfer, sender, resolver, impl, chatIds, now>>

\* const media = await msg.downloadMedia() (index.ts)
MediaDownloaded(h, ok) ==
    LET r == handlers[h] IN
    /\ r.pc = "await_downloadMedia"
    /\ IF ok THEN Route(h, r.chat, r.msg[1])
       ELSE /\ End(handlers, h, r.chat, Undefined, Some(ok), "downloadMedia", "threw", r.out)
            /\ UNCHANGED sessions
    /\ UNCHANGED <<menu, transfer, sender, resolver, impl, chatIds, now>>

\* const results = await searchNkiri(query)
SearchResumed(h, results) ==
    LET r == handlers[h] IN
    /\ r.pc = "await_search"
    /\ IF NoResults(results)
       THEN /\ End(handlers, h, r.chat, Undefined, Some(results), "no_results", "returned",
                   Append(r.out, Reply("NoResults", <<>>)))
            /\ UNCHANGED sessions
       ELSE /\ sessions' = AfterSearch(sessions, r.chat, results, now)
            /\ End(Detach(handlers, r.chat), h, r.chat, Undefined, Some(results), "results",
                   "returned",
                   Append(r.out, Reply("ResultsMenu",
                        Titles(sessions'[r.chat][1].lastResults))))
    /\ UNCHANGED <<menu, transfer, sender, impl, chatIds, now>>
SearchReturned(h, results) ==
    SearchResumed(h, results) /\ UNCHANGED resolver

\* const links = await getDownloadLinks(movie.url); the menu lists one line
\* per link
LinksResumed(h, links) ==
    LET r == handlers[h] IN
    /\ r.pc = "await_links"
    /\ IF NoLinks(links)
       THEN /\ End(handlers, h, r.chat, Undefined, Some(links), "no_links", "returned",
                   Append(r.out, Reply("NoLinks", <<>>)))
            /\ UNCHANGED sessions
       ELSE /\ sessions' = AfterLinks(sessions, r.chat, r.sref, links,
                                      r.movie[1], now)
            /\ End(handlers, h, r.chat, Undefined, Some(links), "title_chosen", "returned",
                   Append(r.out, Reply("LinksMenu", <<Len(links)>>)))
    /\ UNCHANGED <<menu, transfer, sender, impl, chatIds, now>>
LinksReturned(h, links) ==
    LinksResumed(h, links) /\ UNCHANGED resolver

\* selection === 1: await the send of link.url, then delete sessions[chatId].
\* client.sendMessage (index.ts) rejects when the send fails and the handler
\* ends there; sendTextMessage (part_000) returns false instead.
UriSent(h, ok) ==
    LET r == handlers[h] IN
    /\ r.pc = "await_send_uri"
    /\ IF impl = "wwebjs" /\ ~ok
       THEN /\ End(handlers, h, r.chat, Undefined, Some(ok), "choice1", "threw", r.out)
            /\ UNCHANGED sessions
       ELSE /\ sessions' = Delete(sessions, r.chat)
            /\ End(Detach(handlers, r.chat), h, r.chat, Undefined, Some(ok), "choice1",
                   "returned", r.out)
    /\ UNCHANGED <<menu, transfer, sender, resolver, impl, chatIds, now>>

\* downloadAndSend: the "Starting download" send has completed; the request
\* for item.url goes out.  A rejected send (index.ts) leads to the catch.
StartSent(h, ok) ==
    LET r == handlers[h] IN
    /\ r.pc = "await_send_start"
    /\ IF impl = "wwebjs" /\ ~ok
       THEN End(handlers, h, r.chat, Undefined, Some(ok), "choice2", "returned",
                Append(r.out, Reply("DownloadFailed", <<>>)))
       ELSE Await(handlers, h, r.chat, Undefined, Some(ok), "choice2", "await_stream",
                  r.sref, Undefined, r.link, r.out)
    /\ UNCHANGED <<menu, transfer, sender, resolver, impl, chatIds, now, sessions>>

\* downloadAndSend: the stream has ended (writer 'finish') or failed; on
\* success the file goes out as a document
StreamEnded(h, ok) ==
    LET r == handlers[h] IN
    /\ r.pc = "await_stream"
    /\ IF ok
       THEN End(handlers, h, r.chat, Undefined, Some(ok), "choice2", "returned",
                r.out \o <<Reply("DownloadComplete", <<>>),
                           Reply("Document", <<r.link[1].label>>)>>)
       ELSE End(handlers, h, r.chat, Undefined, Some(ok), "choice2", "returned",
                Append(r.out, Reply("DownloadFailed", <<>>)))
    /\ UNCHANGED <<menu, transfer, sender, resolver, impl, chatIds, now, sessions>>

\* the sticker conversion (ffmpeg) has succeeded or failed
StickerDone(h, ok) ==
    LET r == handlers[h] IN
    /\ r.pc = "await_sticker"
    /\ End(handlers, h, r.chat, Undefined, Some(ok), "sticker", "returned",
           Append(r.out, Reply(IF ok THEN "Sticker" ELSE "StickerError", <<>>)))
    /\ UNCHANGED <<menu, transfer, sender, resolver, impl, chatIds, now, sessions>>

\* removeBackground has succeeded or failed
RemoveBgDone(h, ok) ==
    LET r == handlers[h] IN
    /\ r.pc = "await_removebg"
    /\ End(handlers, h, r.chat, Undefined, Some(ok), "removebg", "returned",
           Append(r.out, Reply(IF ok THEN "NoBackground" ELSE "BgError", <<>>)))
    /\ UNCHANGED <<menu, transfer, sender, resolver, impl, chatIds, now, sessions>>

\* downloadMedia(mediaMatch.url, wantsAudio) has succeeded or failed
MediaDone(h, ok) ==
    LET r == handlers[h] IN
    /\ r.pc = "await_media"
    /\ End(handlers, h, r.chat, Undefined, Some(ok), "media", "returned",
           Append(r.out, Reply(IF ok THEN "Media" ELSE "MediaError", <<>>)))
    /\ UNCHANGED <<menu, transfer, sender, resolver, impl, chatIds, now, sessions>>

\* time passes
Tick ==
    /\ now < MaxTime
    /\ now' = now + 1
    /\ last' = NoStep
    /\ UNCHANGED <<menu, transfer, sender, resolver, impl, chatIds, sessions, handlers>>

Next ==
    \/ \E h \in Handlers, c \in Chats, m \in Messages : Receive(h, c, m)
    \/ \E h \in Handlers, ok \in BOOLEAN : MediaDownloaded(h, ok)
    \/ \E h \in Handlers, results \in SearchOutcomes : SearchReturned(h, results)
    \/ \E h \in Handlers, links \in LinkOutcomes : LinksReturned(h, links)
    \/ \E h \in Handlers, ok \in BOOLEAN : UriSent(h, ok)
    \/ \E h \in Handlers, ok \in BOOLEAN : StartSent(h, ok)
    \/ \E h \in Handlers, ok \in BOOLEAN : StreamEnded(h, ok)
    \/ \E h \in Handlers, ok \in BOOLEAN : StickerDone(h, ok)
    \/ \E h \in Handlers, ok \in BOOLEAN : RemoveBgDone(h, ok)
    \/ \E h \in Handlers, ok \in BOOLEAN : MediaDone(h, ok)
    \/ Tick

Spec == Init /\ [][Next]_vars

\* ------------------------------------------------------- reading a step
\* in this step a handler routed message m of conversation c
Routed(c, m) == last'.chat = c /\ last'.msg = Some(m)

\* in this step the call that handler h of conversation c awaited at `pc`
\* completed
Completed(h, c, pc) ==
    /\ last'.chat = c /\ last'.msg = Undefined /\ last'.ret # Undefined
    /\ handlers[h].pc = pc /\ handlers[h].chat = c
    /\ handlers'[h].pc # pc

\* the message is read as a number: the media transform and the search
\* command come first
TransformIntent(m) == IsGif(m) \/ (IsImage(m) /\ m.text.cmd # "none")
NumericReply(m) == m.text.num # NaN /\ ~m.text.search /\ ~TransformIntent(m)
InState(c, st) == sessions[c] # Undefined /\ sessions[c][1].state = st
OutOfRange(n, coll) == n < 1 \/ n > Len(coll)
Stage(c) == IF sessions[c] = Undefined THEN "NONE" ELSE sessions[c][1].state

\* no handler begins to wait for a resolver, a send of the URI or a transfer
StartsNothing ==
    \A h \in Handlers : handlers'[h].pc # "idle" => handlers[h].pc # "idle"

\* ----------------------------------------------------------------- claims

\* C1: a conversation id has at most one session, and the terminal delivery
\* action ends it: when the send of the URI (reply 1) completes, with either
\* outcome, and when reply 2 is routed in DOWNLOAD_METHOD_SELECTION, the map
\* holds no session for the id afterwards.
C1_TerminalDeliveryEndsSession ==
    /\ [](\A c \in Chats : Len(sessions[c]) <= 1)
    /\ [][\A c \in Chats :
            /\ \A h \in Handlers :
                Completed(h, c, "await_send_uri") => sessions'[c] = Undefined
            /\ \A m \in Messages :
                (/\ Routed(c, m) /\ NumericReply(m)
                 /\ InState(c, "DOWNLOAD_METHOD_SELECTION")
                 /\ m.text.num = Some(2))
                => sessions'[c] = Undefined]_vars

\* C2: in SEARCH_RESULTS (AWAITING_TITLE_SELECTION) and in EPISODE_SELECTION
\* (AWAITING_LINK_SELECTION), a numeric reply n with n < 1 or n greater than
\* the length of the collection it indexes leaves the session map as it was,
\* the handler returns having sent the invalid-selection message and nothing
\* else, and no handler begins to wait for a resolver.
C2_InvalidSelection ==
    [][\A c \in Chats, m \in Messages :
        (/\ Routed(c, m) /\ NumericReply(m)
         /\ \/ /\ InState(c, "SEARCH_RESULTS")
               /\ OutOfRange(m.text.num[1], sessions[c][1].lastResults)
            \/ /\ InState(c, "EPISODE_SELECTION")
               /\ OutOfRange(m.text.num[1], sessions[c][1].lastLinks[1]))
        => /\ sessions' = sessions
           /\ last'.status = "returned"
           /\ last'.out = <<Reply("Invalid", <<>>)>>
           /\ StartsNothing]_vars

\* a reply above the length of the candidate list has just been answered
\* with the invalid-selection message, the session still in SEARCH_RESULTS
C2_Witness ==
    \E c \in Chats :
        /\ InState(c, "SEARCH_RESULTS")
        /\ last.chat = c /\ last.msg # Undefined
        /\ last.msg[1].text.num # NaN
        /\ last.msg[1].text.num[1] > Len(sessions[c][1].lastResults)
        /\ last.status = "returned"
        /\ last.out = <<Reply("Invalid", <<>>)>>

\* C6: a search whose result is not empty sets the session of the
\* conversation, whatever it was, to SEARCH_RESULTS with the first
\* min(10, n) results in the resolver's order and with no lastLinks,
\* selectedMovie or selectedLink; every session holds 1 to 10 candidates.
C6_SearchCreatesSession ==
    /\ [](\A c \in Chats : sessions[c] # Undefined =>
            Len(sessions[c][1].lastResults) \in 1..10)
    /\ [][\A c \in Chats, h \in Handlers :
            (Completed(h, c, "await_search") /\ last'.ret[1] # <<>>)
            => LET results == last'.ret[1]
                   new == sessions'[c]
               IN  /\ new # Undefined
                   /\ new[1].state = "SEARCH_RESULTS"
                   /\ Len(new[1].lastResults) = Min(10, Len(results))
                   /\ \A i \in 1..Len(new[1].lastResults) :
                        new[1].lastResults[i] = results[i]
                   /\ new[1].lastLinks = Undefined
                   /\ new[1].selectedMovie = Undefined
                   /\ new[1].selectedLink = Undefined
                   /\ new[1].timestamp = now]_vars

\* a search that returned more than 10 results has just put a session with
\* the first 10 in the place of an earlier session, for which another
\* handler still resolves links
C6_Witness ==
    \E c \in Chats, h \in Handlers :
        /\ last.chat = c /\ last.branch = "results"
        /\ Len(last.ret[1]) > 10
        /\ sessions[c] # Undefined
        /\ Len(sessions[c][1].lastResults) = 10
        /\ sessions[c][1].selectedLink = Undefined
        /\ handlers[h].pc = "await_links" /\ handlers[h].chat = c
        /\ handlers[h].sref = "detached"

\* C7: a search whose result is empty is answered by the no-results message
\* and changes no session: a conversation without a session stays without.
C7_EmptySearch ==
    [][\A c \in Chats, h \in Handlers :
        (Completed(h, c, "await_search") /\ last'.ret[1] = <<>>)
        => /\ sessions' = sessions
           /\ last'.status = "returned"
           /\ last'.out = <<Reply("Searching", <<>>), Reply("NoResults", <<>>)>>
           /\ StartsNothing]_vars

\* an empty search has just been answered in a conversation with no session
C7_Witness ==
    \E c \in Chats :
        /\ last.chat = c /\ last.branch = "no_results"
        /\ last.ret = Some(<<>>)
        /\ last.out = <<Reply("Searching", <<>>), Reply("NoResults", <<>>)>>
        /\ sessions[c] = Undefined

\* C8: in SEARCH_RESULTS an in-range reply n makes the handler resolve the
\* links of lastResults[n-1]; when the resolver returns a sequence that is
\* not empty, the session the handler read goes to EPISODE_SELECTION with
\* lastLinks that very sequence and selectedMovie the chosen candidate, an
\* element of its lastResults.  (When the map no longer holds that session
\* object, the map is left as it is.)
C8_TitleSelection ==
    /\ [][\A c \in Chats, m \in Messages :
            (/\ Routed(c, m) /\ NumericReply(m)
             /\ InState(c, "SEARCH_RESULTS")
             /\ ~OutOfRange(m.text.num[1], sessions[c][1].lastResults))
            => /\ sessions' = sessions
               /\ \E h \in Handlers :
                    /\ handlers[h].pc # "await_links"
                    /\ handlers'[h].pc = "await_links"
                    /\ handlers'[h].chat = c
                    /\ handlers'[h].sref = "current"
                    /\ handlers'[h].movie =
                        Some(sessions[c][1].lastResults[m.text.num[1]])]_vars
    /\ [](\A h \in Handlers :
            (handlers[h].pc = "await_links" /\ handlers[h].sref = "current")
            => /\ sessions[handlers[h].chat] # Undefined
               /\ \E i \in DOMAIN sessions[handlers[h].chat][1].lastResults :
                    handlers[h].movie =
                        Some(sessions[handlers[h].chat][1].lastResults[i]))
    /\ [][\A c \in Chats, h \in Handlers :
            (Completed(h, c, "await_links") /\ last'.ret[1] # <<>>)
            => IF handlers[h].sref = "current"
               THEN sessions' = [sessions EXCEPT ![c] = Some([sessions[c][1]
                        EXCEPT !.state = "EPISODE_SELECTION",
                               !.lastLinks = last'.ret,
                               !.selectedMovie = handlers[h].movie,
                               !.timestamp = now])]
               ELSE sessions' = sessions]_vars

\* reply 2 to a list of 10 candidates: the resolver has just returned one
\* link and the session is in EPISODE_SELECTION with that one link and the
\* second candidate
C8_Witness ==
    \E c \in Chats :
        /\ InState(c, "EPISODE_SELECTION")
        /\ last.chat = c /\ last.branch = "title_chosen"
        /\ Len(last.ret[1]) = 1
        /\ sessions[c][1].lastLinks = last.ret
        /\ Len(sessions[c][1].lastResults) = 10
        /\ sessions[c][1].selectedMovie = Some(sessions[c][1].lastResults[2])

\* C9: when the resolver returns the empty sequence for an in-range reply in
\* SEARCH_RESULTS, the handler answers "no download links found" and no
\* field of any session changes.
C9_NoLinks ==
    [][\A c \in Chats, h \in Handlers :
        (Completed(h, c, "await_links") /\ last'.ret[1] = <<>>)
        => /\ sessions' = sessions
           /\ last'.status = "returned"
           /\ last'.out = Append(handlers[h].out, Reply("NoLinks", <<>>))
           /\ Len(last'.out) = 2 /\ last'.out[1].kind = "Opening"
           /\ StartsNothing]_vars

\* the resolver has just returned nothing and the session is in
\* SEARCH_RESULTS as before
C9_Witness ==
    \E c \in Chats :
        /\ InState(c, "SEARCH_RESULTS")
        /\ last.chat = c /\ last.branch = "no_links"
        /\ last.ret = Some(<<>>)
        /\ last.out[2] = Reply("NoLinks", <<>>)

\* C10: in EPISODE_SELECTION an in-range reply n sets selectedLink to
\* lastLinks[n-1] and the state to DOWNLOAD_METHOD_SELECTION; the handler
\* returns having sent the menu of the two delivery options and nothing
\* else (no URI), and no transfer begins.
C10_LinkSelection ==
    [][\A c \in Chats, m \in Messages :
        (/\ Routed(c, m) /\ NumericReply(m)
         /\ InState(c, "EPISODE_SELECTION")
         /\ ~OutOfRange(m.text.num[1], sessions[c][1].lastLinks[1]))
        => /\ sessions' = [sessions EXCEPT ![c] = Some([sessions[c][1] EXCEPT
                !.state = "DOWNLOAD_METHOD_SELECTION",
                !.selectedLink =
                    Some(sessions[c][1].lastLinks[1][m.text.num[1]]),
                !.timestamp = now])]
           /\ last'.status = "returned"
           /\ last'.out = <<Reply("ChoiceMenu", <<1, 2>>)>>
           /\ StartsNothing]_vars

\* reply 2 to a list of two links has just been answered with the menu, the
\* session in DOWNLOAD_METHOD_SELECTION with the second link selected
C10_Witness ==
    \E c \in Chats :
        /\ InState(c, "DOWNLOAD_METHOD_SELECTION")
        /\ last.chat = c /\ last.branch = "link_chosen"
        /\ last.msg[1].text.num = Some(2)
        /\ last.out = <<Reply("ChoiceMenu", <<1, 2>>)>>
        /\ sessions[c][1].selectedLink = Some(sessions[c][1].lastLinks[1][2])

\* C3: the stage of a conversation changes only along NONE -> SEARCH_RESULTS
\* -> EPISODE_SELECTION -> DOWNLOAD_METHOD_SELECTION -> NONE, or to
\* SEARCH_RESULTS from any stage when a search returns results; no step of
\* any handler, however the handlers interleave, moves it otherwise.
Forward ==
    { <<"NONE", "SEARCH_RESULTS">>,
      <<"SEARCH_RESULTS", "EPISODE_SELECTION">>,
      <<"EPISODE_SELECTION", "DOWNLOAD_METHOD_SELECTION">>,
      <<"DOWNLOAD_METHOD_SELECTION", "NONE">> }

C3_StageOrder ==
    [][\A c \in Chats :
        \/ Stage(c)' = Stage(c)
        \/ <<Stage(c), Stage(c)'>> \in Forward
        \/ /\ Stage(c)' = "SEARCH_RESULTS"
           /\ \E h \in Handlers :
                Completed(h, c, "await_search") /\ last'.ret[1] # <<>>]_vars

\* C4: reply 2 in DOWNLOAD_METHOD_SELECTION removes the session in the step
\* that begins the transfer, so a handler inside the transfer never holds a
\* session that is still in the map; a numeric reply that finds no session is
\* answered outside Selection Handling and begins no transfer.
InTransfer(h) == handlers[h].pc \in {"await_send_start", "await_stream"}


C4_DeleteBeforeTransfer ==
    /\ [](\A h \in Handlers : InTransfer(h) => handlers[h].sref = "detached")
    /\ [][\A c \in Chats, m \in Messages :
            /\ (/\ Routed(c, m) /\ NumericReply(m)
                /\ InState(c, "DOWNLOAD_METHOD_SELECTION")
                /\ m.text.num = Some(2))
               => /\ sessions'[c] = Undefined
                  /\ \E h \in Handlers :
                        /\ handlers'[h].pc = "await_send_start"
                        /\ handlers'[h].link = sessions[c][1].selectedLink
            /\ (Routed(c, m) /\ NumericReply(m) /\ sessions[c] = Undefined)
               => /\ \A h \in Handlers : InTransfer(h)' => InTransfer(h)
                  /\ sessions' = sessions
                  /\ last'.branch \in {"help", "media", "ignored"}]_vars

\* a transfer of the conversation runs and a further reply 2 has just found
\* no session and been answered with the help text
C4_Witness ==
    \E c \in Chats, h \in Handlers :
        /\ InTransfer(h) /\ handlers[h].chat = c
        /\ sessions[c] = Undefined
        /\ last.chat = c /\ last.msg # Undefined
        /\ last.msg[1].text.num = Some(2)
        /\ last.branch = "help"

\* C5: a numeric reply to a conversation whose session was last refreshed
\* longer ago than the inactivity window is handled as in NONE: it does not
\* enter Selection Handling.
Stale(c) ==
    /\ sessions[c] # Undefined
    /\ now - sessions[c][1].timestamp > InactivityWindow

C5_StaleSessionIsNone ==
    [][\A c \in Chats, m \in Messages :
        (Routed(c, m) /\ NumericReply(m) /\ Stale(c))
        => last'.branch \in {"help", "media", "ignored"}]_vars

\* C11: in DOWNLOAD_METHOD_SELECTION reply 1 sends the url of selectedLink
\* as text and nothing else, starts no transfer, and when the handler
\* finishes, whatever the send did, the conversation has no session.
C11_SendUri ==
    [][\A c \in Chats :
        /\ \A m \in Messages :
            (/\ Routed(c, m) /\ NumericReply(m)
             /\ InState(c, "DOWNLOAD_METHOD_SELECTION")
             /\ m.text.num = Some(1))
            => /\ last'.out =
                    <<Reply("Uri", <<sessions[c][1].selectedLink[1].url>>)>>
               /\ \A h \in Handlers : InTransfer(h)' => InTransfer(h)
        /\ \A h \in Handlers :
            Completed(h, c, "await_send_uri")
            => /\ handlers'[h] = Idle
               /\ last'.out = handlers[h].out
               /\ Stage(c)' = "NONE"]_vars

\* C12: in DOWNLOAD_METHOD_SELECTION a numeric reply other than 1 and 2 is
\* answered with the "reply 1 or 2" prompt and nothing else; no field of any
\* session changes and no send of the URI and no transfer begins.
C12_OtherChoice ==
    [][\A c \in Chats, m \in Messages :
        (/\ Routed(c, m) /\ NumericReply(m)
         /\ InState(c, "DOWNLOAD_METHOD_SELECTION")
         /\ m.text.num[1] \notin {1, 2})
        => /\ sessions' = sessions
           /\ last'.status = "returned"
           /\ last'.out = <<Reply("Choose1or2", <<>>)>>
           /\ StartsNothing]_vars

\* reply 0 has just been answered with the prompt, the session still in
\* DOWNLOAD_METHOD_SELECTION with its selected link
C12_Witness ==
    \E c \in Chats :
        /\ InState(c, "DOWNLOAD_METHOD_SELECTION")
        /\ sessions[c][1].selectedLink # Undefined
        /\ last.chat = c /\ last.branch = "choice_other"
        /\ last.msg[1].text.num = Some(0)
        /\ last.out = <<Reply("Choose1or2", <<>>)>>

\* C13: the branch that handles a message is fixed by this order: media
\* transform, search command, numeric reply with a session, media link,
\* help; a handler keeps the branch it took until it ends.
TransformBranches == {"sticker", "removebg"}
SelectionBranches ==
    {"invalid_title", "title", "invalid_link", "link_chosen", "choice1",
     "choice2", "choice_other"}

C13_Priority ==
    /\ [][\A c \in Chats, m \in Messages :
            Routed(c, m)
            => IF TransformIntent(m)
               THEN last'.branch \in TransformBranches
               ELSE IF m.text.search
               THEN last'.branch = "search"
               ELSE IF m.text.num # NaN /\ sessions[c] # Undefined
               THEN last'.branch \in SelectionBranches
               ELSE IF m.text.url /\ m.att = "none"
               THEN last'.branch = "media"
               ELSE last'.branch \in {"help", "ignored"}]_vars
    /\ [][\A h \in Handlers :
            (/\ handlers[h].pc \notin {"idle", "await_downloadMedia"}
             /\ handlers'[h].pc # "idle")
            => handlers'[h].branch = handlers[h].branch]_vars

\* a number followed by a media link has just been taken as a selection,
\* the conversation having a session
C13_Witness ==
    \E c \in Chats :
        /\ last.chat = c /\ last.msg # Undefined
        /\ last.msg[1].text.num # NaN /\ last.msg[1].text.url
        /\ last.branch \in SelectionBranches
        /\ sessions[c] # Undefined

\* C14: a message without attachment that is no search command, no numeric
\* reply with a session and has no media link is answered with the help
\* text and nothing else, and no session changes; a message with an
\* attachment is never answered with the help text.
C14_Help ==
    [][\A c \in Chats, m \in Messages :
        Routed(c, m)
        => /\ (/\ m.att = "none" /\ ~m.text.search /\ ~m.text.url
               /\ ~(m.text.num # NaN /\ sessions[c] # Undefined))
              => /\ last'.branch = "help"
                 /\ last'.status = "returned"
                 /\ last'.out = <<Reply("Help", <<>>)>>
                 /\ sessions' = sessions
           /\ m.att # "none" => last'.branch # "help"]_vars

\* C15: a message with an attachment and sticker or background-removal
\* intent is handled by the transform alone, and no step of its handler,
\* the download of the attachment and the failed transform included,
\* changes the session map.
C15_TransformLeavesSessions ==
    /\ [][\A c \in Chats, m \in Messages :
            (Routed(c, m) /\ TransformIntent(m))
            => /\ sessions' = sessions
               /\ last'.branch \in TransformBranches
               /\ \E h \in Handlers :
                    handlers'[h].pc \in {"await_sticker", "await_removebg"}
                    /\ handlers'[h].pc # handlers[h].pc]_vars
    /\ [][\A c \in Chats, h \in Handlers :
            (\/ Completed(h, c, "await_sticker")
             \/ Completed(h, c, "await_removebg"))
            => /\ sessions' = sessions
               /\ handlers'[h] = Idle
               /\ last'.branch \in TransformBranches]_vars
    /\ [][last'.branch = "downloadMedia" => sessions' = sessions]_vars

\* the conversion of an image captioned "sticker" has just failed while the
\* conversation has a session in EPISODE_SELECTION
C15_Witness ==
    \E c \in Chats :
        /\ InState(c, "EPISODE_SELECTION")
        /\ last.chat = c /\ last.branch = "sticker"
        /\ last.ret = Some(FALSE)
        /\ last.out[Len(last.out)] = Reply("StickerError", <<>>)

\* ------------------------------------------------------------ Link Resolver
\* getDownloadLinks(movieUrl), src/nkiri.ts.  The detail page is the sequence
\* of its anchors in document order.  A url is its last path segment and
\* its query string; two urls are the same string when both are equal.
MaxAnchors == 3

Url(tail, query) == [tail |-> tail, query |-> query]
Urls == {Url("file123.mp4", ""), Url("file123.mp4", "?sig=xyz"), Url("", "")}
MaybeUrl == {Undefined} \cup {Some(u) : u \in Urls}
Link(label, url) == [label |-> label, url |-> url]

\* an anchor whose href includes 'nkiserv.com'
Direct(url, text) == [kind |-> "direct", url |-> Some(url), text |-> text]
\* section.elementor-section a.elementor-button whose href includes
\* 'downloadwella.com' or 'wetafiles.com'
Button(label) == [kind |-> "button", url |-> Undefined, text |-> label]
\* any other anchor
Plain == [kind |-> "plain", url |-> Undefined, text |-> ""]
Anchors ==
    {Direct(u, t) : u \in Urls, t \in {"", "Episode 1"}}
    \cup {Button(l) : l \in {"Download", "Episode 1"}}
    \cup {Plain}
Pages == UNION {[1..n -> Anchors] : n \in 0..MaxAnchors}

\* what a request can do: resolve with a response, or reject with an error
\* that carries a response or none (a network error)
Response(status, location) == [status |-> status, location |-> location]
Resolved(form, response) ==
    [ok |-> TRUE, form |-> form, response |-> response]
Rejected(response) == [ok |-> FALSE, form |-> FALSE, response |-> response]
ErrorResponses ==
    {Undefined} \cup {Some(Response(st, l)) : st \in {302, 307, 404},
                                              l \in MaybeUrl}
\* axiosInstance.get(page.url): the page has hidden inputs in form F1 or not
GetOutcomes ==
    {Resolved(f, Undefined) : f \in BOOLEAN}
    \cup {Rejected(r) : r \in ErrorResponses}
\* axiosInstance.post(...) with maxRedirects: 0 and validateStatus
\* 200 <= status < 400
PostOutcomes ==
    {Resolved(FALSE, Some(Response(st, l))) : st \in {200, 302, 307},
                                             l \in MaybeUrl}
    \cup {Rejected(r) : r \in ErrorResponses}

\* label.toLowerCase() on the labels of the model
ToLowerCase(label) ==
    CASE label = "Download" -> "download"
      [] label = "Direct Link" -> "direct link"
      [] label = "Episode 1" -> "episode 1"
      [] OTHER -> label
\* label.toLowerCase().includes('direct link') || ... === 'download'
Generic(label) ==
    ToLowerCase(label) = "direct link" \/ ToLowerCase(label) = "download"
\* location.split('/').pop()?.split('?')[0] || ''
Filename(location) == location.tail
\* let label = page.label; if (generic) { if (filename) label = filename }
FinalLabelKept(label, location) == label
FinalLabel(label, location) ==
    IF Generic(label) /\ Filename(location) # ""
    THEN Filename(location) ELSE label

\* 1. $('a').each: href includes 'nkiserv.com' -> { label: text ||
\* 'Direct Link', url: href }
RECURSIVE PhaseA(_)
PhaseA(page) ==
    IF page = <<>> THEN <<>>
    ELSE LET a == Head(page) IN
         (IF a.kind = "direct"
          THEN <<Link(IF a.text # "" THEN a.text ELSE "Direct Link",
                      a.url[1])>>
          ELSE <<>>) \o PhaseA(Tail(page))

\* 2. the redirect buttons, downloadPages, as their labels
RECURSIVE PhaseB(_)
PhaseB(page) ==
    IF page = <<>> THEN <<>>
    ELSE LET a == Head(page) IN
         (IF a.kind = "button" THEN <<a.text>> ELSE <<>>)
         \o PhaseB(Tail(page))

\* finalLinks.filter(item => { duplicate = seen.has(item.url); ... })
RECURSIVE Filter(_, _)
Filter(links, seen) ==
    IF links = <<>> THEN <<>>
    ELSE IF Head(links).url \in seen
    THEN Filter(Tail(links), seen)
    ELSE <<Head(links)>> \o Filter(Tail(links), seen \cup {Head(links).url})
Reverse(seq) == [k \in 1..Len(seq) |-> seq[Len(seq) + 1 - k]]
NoDedup(links) == links
DedupKeepLast(links) == Reverse(Filter(Reverse(links), {}))
Dedup(links) == Filter(links, {})

\* the for loop goes on with the next page, or the function returns the
\* de-duplicated finalLinks
Continue(r, o) ==
    IF r.i < Len(r.downloadPages)
    THEN [r EXCEPT !.pc = "get_page", !.i = r.i + 1, !.ev = Some(o)]
    ELSE [r EXCEPT !.pc = "done", !.i = r.i + 1, !.ev = Some(o),
                   !.result = Dedup(r.finalLinks)]

\* finalLinks.push({ label, url: location })
Push(r, location) ==
    [r EXCEPT !.finalLinks = Append(r.finalLinks,
        Link(FinalLabel(r.downloadPages[r.i], location), location))]

\* catch (postError): a 302 with a Location is a link, anything else is
\* dropped
IsRedirectError(response) ==
    /\ response # Undefined
    /\ response[1].status = 302
    /\ response[1].location # Undefined
CatchAbort(r, o) ==
    [r EXCEPT !.pc = "done", !.ev = Some(o), !.result = <<>>]
Catch(r, o) ==
    IF IsRedirectError(o.response)
    THEN Continue(Push(r, o.response[1].location[1]), o)
    ELSE Continue(r, o)

\* the catch of the try block around the whole body: whatever was thrown is
\* logged and the function returns []
OuterCatchRethrow(r, o) == [r EXCEPT !.pc = "threw", !.ev = Some(o)]
OuterCatch(r, o) == [r EXCEPT !.pc = "done", !.result = <<>>, !.ev = Some(o)]

ResolverUnchanged ==
    UNCHANGED <<impl, chatIds, sessions, handlers, now, last, transfer, sender,
                menu>>

\* const { data } = await axiosInstance.get(movieUrl) has completed and
\* cheerio.load(data) has run; ~ok is a rejected request or an exception of
\* cheerio.load: either is an error without a response
PageFetched(ok) ==
    /\ resolver.pc = "fetch"
    /\ resolver' =
        IF ~ok
        THEN OuterCatch(resolver, Rejected(Undefined))
        ELSE Continue([resolver EXCEPT
                        !.finalLinks = PhaseA(resolver.page),
                        !.downloadPages = PhaseB(resolver.page)],
                      Resolved(FALSE, Undefined))
    /\ ResolverUnchanged

\* await axiosInstance.get(page.url) has completed
GatewayFetched(o) ==
    /\ resolver.pc = "get_page"
    /\ resolver' =
        IF o.ok
        THEN IF o.form
             THEN [resolver EXCEPT !.pc = "post", !.ev = Some(o)]
             ELSE Continue(resolver, o)
        ELSE Catch(resolver, o)
    /\ ResolverUnchanged

\* await axiosInstance.post(page.url, ...) has completed
PostDone(o) ==
    /\ resolver.pc = "post"
    /\ resolver' =
        IF o.ok
        THEN IF o.response[1].location # Undefined
             THEN Continue(Push(resolver, o.response[1].location[1]), o)
             ELSE Continue(resolver, o)
        ELSE Catch(resolver, o)
    /\ ResolverUnchanged

InitResolver ==
    /\ impl \in Impls
    /\ chatIds = {}
    /\ sessions = [c \in Chats |-> Undefined]
    /\ handlers = [h \in Handlers |-> Idle]
    /\ now = 0
    /\ last = NoStep
    /\ transfer = NoTransfer
    /\ sender = NotSending
    /\ menu = NoMenu
    /\ \E page \in Pages :
        resolver = [NotCalled EXCEPT !.pc = "fetch", !.page = page]

NextResolver ==
    \/ \E ok \in BOOLEAN : PageFetched(ok)
    \/ \E o \in GetOutcomes : GatewayFetched(o)
    \/ \E o \in PostOutcomes : PostDone(o)

SpecResolver == InitResolver /\ [][NextResolver]_vars

\* C17: the sequence getDownloadLinks returns has no two entries with the
\* same url, whatever the page and whatever the gateway requests did.
C17_NoDuplicateUrl ==
    resolver.pc = "done"
    => \A j, k \in DOMAIN resolver.result :
            j # k => resolver.result[j].url # resolver.result[k].url

\* the call has returned two entries after collecting three, two of them
\* with the same url
C17_Witness ==
    /\ resolver.pc = "done"
    /\ Len(resolver.finalLinks) = 3
    /\ Len(resolver.result) = 2
    /\ \E j, k \in DOMAIN resolver.finalLinks :
            j # k /\ resolver.finalLinks[j].url = resolver.finalLinks[k].url

\* C18: the collected entries are the direct links in document order, then
\* one entry appended per gateway that yields a Location, in the order of
\* the gateways; the result is the collected sequence without every entry
\* whose url an earlier entry has, in the same relative order.
IsDirect(a) == a.kind = "direct"
Kept(links) ==
    {k \in DOMAIN links : \A j \in 1..(k - 1) : links[j].url # links[k].url}
IsFirstSeen(res, links) ==
    /\ Len(res) = Cardinality(Kept(links))
    /\ \A k \in DOMAIN res :
        \E j \in Kept(links) :
            /\ res[k] = links[j]
            /\ Cardinality({x \in Kept(links) : x < j}) = k - 1

C18_FirstSeenOrder ==
    /\ [][(resolver.pc = "fetch" /\ resolver'.ev[1].ok)
            => LET direct == SelectSeq(resolver.page, IsDirect) IN
               /\ Len(resolver'.finalLinks) = Len(direct)
               /\ \A k \in DOMAIN direct :
                    /\ resolver'.finalLinks[k].url = direct[k].url[1]
                    /\ resolver'.finalLinks[k].label =
                        (IF direct[k].text = "" THEN "Direct Link"
                         ELSE direct[k].text)]_vars
    /\ [][resolver.pc \in {"get_page", "post"}
            => /\ resolver'.i = resolver.i + (IF resolver'.pc = "post"
                                              THEN 0 ELSE 1)
               /\ \/ resolver'.finalLinks = resolver.finalLinks
                  \/ /\ Len(resolver'.finalLinks) =
                            Len(resolver.finalLinks) + 1
                     /\ SubSeq(resolver'.finalLinks, 1,
                               Len(resolver.finalLinks)) = resolver.finalLinks
                     /\ Some(resolver'.finalLinks[Len(resolver'.finalLinks)].url)
                            = resolver'.ev[1].response[1].location]_vars
    /\ [](resolver.pc = "done"
            => IsFirstSeen(resolver.result, resolver.finalLinks))

\* a direct link and two gateways: the first gateway led to the url of the
\* direct link and was dropped, the direct link kept its label, and the
\* second gateway's entry follows it
C18_Witness ==
    /\ resolver.pc = "done"
    /\ Len(resolver.page) = 3
    /\ resolver.page[1].kind = "direct"
    /\ resolver.page[2].kind = "button" /\ resolver.page[3].kind = "button"
    /\ Len(resolver.finalLinks) = 3
    /\ resolver.finalLinks[1].url = resolver.finalLinks[2].url
    /\ resolver.finalLinks[1].label # resolver.finalLinks[2].label
    /\ resolver.result = <<resolver.finalLinks[1], resolver.finalLinks[3]>>

\* C19: when a gateway fails (its fetch rejects, its form has no hidden
\* input, or its POST rejects, each without a redirect), nothing is
\* collected for it and nothing collected is lost: the loop goes on with
\* the next gateway, or the call returns what it has collected.
RedirectStatuses == {302, 307}
IsRedirect(response) ==
    /\ response # Undefined
    /\ response[1].status \in RedirectStatuses
    /\ response[1].location # Undefined
GatewayFailed(pc, o) ==
    \/ pc \in {"get_page", "post"} /\ ~o.ok /\ ~IsRedirect(o.response)
    \/ pc = "get_page" /\ o.ok /\ ~o.form

C19_GatewayFailureIsLocal ==
    [][(resolver' # resolver /\ GatewayFailed(resolver.pc, resolver'.ev[1]))
        => /\ resolver'.finalLinks = resolver.finalLinks
           /\ resolver'.i = resolver.i + 1
           /\ IF resolver.i < Len(resolver.downloadPages)
              THEN resolver'.pc = "get_page"
              ELSE /\ resolver'.pc = "done"
                   /\ IsFirstSeen(resolver'.result, resolver.finalLinks)]_vars

\* two gateways and no direct link: the fetch of the second gateway has
\* just failed with a network error and the call has returned the entry of
\* the first
C19_Witness ==
    /\ resolver.pc = "done"
    /\ Len(resolver.downloadPages) = 2
    /\ SelectSeq(resolver.page, IsDirect) = <<>>
    /\ resolver.ev = Some(Rejected(Undefined))
    /\ resolver.i = 3
    /\ Len(resolver.result) = 1

IsPlaceholder(label) == label \in {"Download", "Direct Link"}

MaxArticles == 1

Article(href, alt, text) == [href |-> href, alt |-> alt, text |-> text]
Articles ==
    {Article(href, alt, text) :
        href \in {"", "u1"}, alt \in {"", "A"}, text \in {"", "B"}}
SearchPages == UNION {[1..n -> Articles] : n \in 0..MaxArticles}
SearchFetches ==
    {Rejected(Undefined)} \cup {[ok |-> TRUE, data |-> p] : p \in SearchPages}

Title(article) == IF article.alt # "" THEN article.alt ELSE article.text

RECURSIVE SearchResults(_)
SearchResults(page) ==
    IF page = <<>> THEN <<>>
    ELSE LET article == page[Len(page)]
             results == SearchResults(SubSeq(page, 1, Len(page) - 1))
         IN  IF article.href # "" /\ Title(article) # ""
             THEN Append(results, [title |-> Title(article),
                                   url |-> article.href])
             ELSE results

\* the detail pages given to getDownloadLinks when it runs under the
\* controller
LookupPages == {page \in Pages : Len(page) <= 2}

\* the handler has called searchNkiri(query): the request for the search
\* page is in flight
SearchCalled(h) ==
    /\ handlers[h].pc = "await_search"
    /\ resolver.pc = "idle"
    /\ resolver' = [NotCalled EXCEPT !.pc = "search"]
    /\ ResolverUnchanged

\* const { data } = await axiosInstance.get(searchUrl) has completed and the
\* page has been parsed; ~o.ok is a rejected request or an exception of
\* cheerio.load
SearchFetched(o) ==
    /\ resolver.pc = "search"
    /\ resolver' =
        IF o.ok
        THEN [resolver EXCEPT !.pc = "done", !.ev = Some(o),
                              !.result = SearchResults(o.data)]
        ELSE OuterCatch(resolver, o)
    /\ ResolverUnchanged

\* the handler has called getDownloadLinks(movie.url): the request for the
\* detail page is in flight
LinksCalled(h) ==
    /\ handlers[h].pc = "await_links"
    /\ resolver.pc = "idle"
    /\ \E page \in LookupPages :
        resolver' = [NotCalled EXCEPT !.pc = "fetch", !.page = page]
    /\ ResolverUnchanged

\* the resolver has returned and the handler goes on with the value; the
\* record of the finished call stays until the next call
SearchResolved(h) ==
    /\ resolver.pc = "done"
    /\ SearchResumed(h, resolver.result)
    /\ resolver' = [resolver EXCEPT !.pc = "idle"]

LinksResolved(h) ==
    /\ resolver.pc = "done"
    /\ LinksResumed(h, resolver.result)
    /\ resolver' = [resolver EXCEPT !.pc = "idle"]

MessagesLookup ==
    {Msg("none", Text(TRUE, NaN, FALSE, "none")),
     Msg("none", Text(FALSE, Some(1), FALSE, "none"))}

InitLookup == InitCommon /\ chatIds = {"c1"}

NextLookup ==
    \/ \E m \in MessagesLookup : Receive(1, "c1", m)
    \/ \E h \in Handlers : SearchCalled(h)
    \/ \E o \in SearchFetches : SearchFetched(o)
    \/ \E h \in Handlers : SearchResolved(h)
    \/ \E h \in Handlers : LinksCalled(h)
    \/ \E ok \in BOOLEAN : PageFetched(ok)
    \/ \E o \in GetOutcomes : GatewayFetched(o)
    \/ \E o \in PostOutcomes : PostDone(o)
    \/ \E h \in Handlers : LinksResolved(h)
    \/ \E h \in Handlers, ok \in BOOLEAN : UriSent(h, ok)

SpecLookup == InitLookup /\ [][NextLookup]_vars

\* C22: neither resolver raises.  When the request for the page is rejected
\* or the page cannot be parsed, the resolver returns the empty sequence,
\* and the handler that awaited it sends one more message, the "nothing
\* found" reply, and returns without touching the sessions.
InitialFailure(r) == r.i = 0 /\ r.ev # Undefined /\ ~r.ev[1].ok

C22_ResolversNeverRaise ==
    /\ [][resolver'.pc # "threw"]_vars
    /\ [][(resolver.pc \in {"search", "fetch"} /\ resolver' # resolver
           /\ ~resolver'.ev[1].ok)
          => resolver'.pc = "done" /\ resolver'.result = <<>>]_vars
    /\ [][\A h \in Handlers :
            (/\ resolver.pc = "done" /\ InitialFailure(resolver)
             /\ handlers'[h] # handlers[h])
            => /\ last'.ret = Some(<<>>)
               /\ last'.status = "returned"
               /\ sessions' = sessions
               /\ \E kind \in {"NoResults", "NoLinks"} :
                    /\ kind = "NoResults" <=> handlers[h].pc = "await_search"
                    /\ last'.out = Append(handlers[h].out,
                                          Reply(kind, <<>>))]_vars

\* the request for a detail page with an anchor on it was rejected, and the
\* handler that had a title chosen has answered that there are no links
C22_Witness ==
    /\ resolver.pc = "idle"
    /\ resolver.page # <<>>
    /\ InitialFailure(resolver)
    /\ last.branch = "no_links" /\ last.status = "returned"
    /\ last.ret = Some(<<>>)
    /\ last.out[Len(last.out)] = Reply("NoLinks", <<>>)

\* ------------------------------------------------------ downloadAndSend
\* One call of downloadAndSend(chatId, item), in either controller.  The
\* steps are its awaits and the events of the two streams; `out` is what it
\* has sent to the conversation, in the order of the sends; `files` is what
\* it has left in the temporary directory: "temp" is tempFile, "final" is
\* finalFile (index.ts only).
MaxTotal == 200
MaxChunk == 2

\* response.headers['content-length']: absent, or present with what
\* parseInt makes of it
Totals == {0, 1, 4, MaxTotal \div 2, MaxTotal}
Headers == {Undefined, Some(NaN)} \cup {Some(Some(n)) : n \in Totals}
Fetches ==
    {[ok |-> FALSE, header |-> Undefined]}
    \cup {[ok |-> TRUE, header |-> header] : header \in Headers}

\* parseInt(response.headers['content-length'] || '0')
TotalBytesAssumed(header) ==
    IF header = Undefined \/ header[1] = NaN
    THEN Some(MaxTotal) ELSE header[1]
TotalBytes(header) == IF header = Undefined THEN Some(0) ELSE header[1]

\* totalBytes > 0
KnownTotal(totalBytes) == totalBytes # NaN /\ totalBytes[1] > 0

\* Math.floor((downloadedBytes / totalBytes) * 100).  The quotient is
\* computed in floating point; for sizes below 2^53 it is below 50 exactly
\* when 2 * downloadedBytes < totalBytes and is a multiple of 50 exactly when
\* the integer quotient is, which is all the reports depend on.
Progress(downloadedBytes, totalBytes) ==
    (downloadedBytes * 100) \div totalBytes

ShouldLogAlways(progress, lastLoggedProgress) == progress % 10 = 0
ShouldLog(progress, lastLoggedProgress) ==
    progress % 10 = 0 /\ progress # lastLoggedProgress
ShouldReport(progress) ==
    progress % 25 = 0 /\ progress > 0 /\ progress < 100

\* response.data.on('data', chunk => ...) for a chunk of n bytes.  The send
\* of the progress message is not awaited.
OnData(t, n) ==
    LET downloadedBytes == t.downloadedBytes + n IN
    IF KnownTotal(t.totalBytes)
    THEN LET progress == Progress(downloadedBytes, t.totalBytes[1]) IN
         IF ShouldLog(progress, t.lastLoggedProgress)
         THEN [t EXCEPT !.downloadedBytes = downloadedBytes,
                        !.lastLoggedProgress = progress,
                        !.out = IF ShouldReport(progress)
                                THEN Append(@, Reply("Progress", <<progress>>))
                                ELSE @]
         ELSE [t EXCEPT !.downloadedBytes = downloadedBytes]
    ELSE LET mb == downloadedBytes \div 1048576 IN
         IF mb % 10 = 0 /\ mb # t.lastLoggedProgress
         THEN [t EXCEPT !.downloadedBytes = downloadedBytes,
                        !.lastLoggedProgress = mb]
         ELSE [t EXCEPT !.downloadedBytes = downloadedBytes]

\* an exception inside the try block: control is in the catch, about to
\* send the failure message
Thrown(t, cause) == [t EXCEPT !.pc = "send_failed", !.cause = cause]

\* what a completed send adds to `out`
Sent(t, ok, kind) ==
    [t EXCEPT !.out = IF ok THEN Append(@, Reply(kind, <<>>)) ELSE @]

TransferUnchanged ==
    UNCHANGED <<impl, chatIds, sessions, handlers, now, last, resolver, sender,
                menu>>

\* the "Starting download" send has completed.  client.sendMessage
\* (index.ts) rejects when the send fails; sendTextMessage (part_000)
\* returns false.
StartingSent(ok) ==
    /\ transfer.pc = "send_start"
    /\ transfer' =
        IF impl = "wwebjs" /\ ~ok THEN Thrown(transfer, "send")
        ELSE [Sent(transfer, ok, "StartingDownload") EXCEPT !.pc = "fetch"]
    /\ TransferUnchanged

\* await axios({ url: item.url, responseType: 'stream' }) has completed; on
\* success the locals are set, createWriteStream(tempFile) creates the
\* staging file and the response is piped into it
Fetched(o) ==
    /\ transfer.pc = "fetch"
    /\ transfer' =
        IF ~o.ok THEN Thrown(transfer, "fetch")
        ELSE [transfer EXCEPT !.pc = "stream",
                              !.header = o.header,
                              !.totalBytes = TotalBytes(o.header),
                              !.downloadedBytes = 0,
                              !.lastLoggedProgress = -1,
                              !.files = @ \cup {"temp"}]
    /\ TransferUnchanged

\* a chunk of n bytes arrives.  everyPercent records that no chunk so far
\* has moved the percentage by more than one.
Data(n) ==
    /\ transfer.pc = "stream"
    /\ transfer.downloadedBytes + n <= MaxTotal
    /\ transfer' =
        [OnData(transfer, n) EXCEPT !.everyPercent =
            /\ transfer.everyPercent
            /\ KnownTotal(transfer.totalBytes)
            /\ Progress(transfer.downloadedBytes + n, transfer.totalBytes[1])
                <= Progress(transfer.downloadedBytes,
                            transfer.totalBytes[1]) + 1]
    /\ TransferUnchanged

\* writer.on('finish', resolve)
WriterFinished ==
    /\ transfer.pc = "stream"
    /\ transfer' = [transfer EXCEPT !.pc = "send_complete"]
    /\ TransferUnchanged

\* writer.on('error', reject)
WriterFailed ==
    /\ transfer.pc = "stream"
    /\ transfer' = Thrown(transfer, "write")
    /\ TransferUnchanged

\* response.data emits 'error' (the connection breaks after the headers).
\* pipe() does not end the writer then and nothing listens for the error of
\* the source: the awaited promise stays pending, or the process ends on the
\* unhandled 'error' event, depending on the listeners the HTTP client has
\* put on the stream.
SourceFailed(end) ==
    /\ transfer.pc = "stream"
    /\ transfer' = [transfer EXCEPT !.pc = end, !.cause = "stream"]
    /\ TransferUnchanged

\* the "Download complete" send has completed
CompleteSent(ok) ==
    /\ transfer.pc = "send_complete"
    /\ transfer' =
        IF impl = "wwebjs" /\ ~ok THEN Thrown(transfer, "send")
        ELSE [Sent(transfer, ok, "DownloadComplete") EXCEPT
                !.pc = IF impl = "wwebjs" THEN "rename" ELSE "read_file"]
    /\ TransferUnchanged

\* index.ts: await fs.rename(tempFile, finalFile)
Renamed(ok) ==
    /\ transfer.pc = "rename"
    /\ transfer' =
        IF ~ok THEN Thrown(transfer, "rename")
        ELSE [transfer EXCEPT !.pc = "send_document",
                              !.files = (@ \ {"temp"}) \cup {"final"}]
    /\ TransferUnchanged

\* part_000: const fileBuffer = await fs.readFile(tempFile)
FileRead(ok) ==
    /\ transfer.pc = "read_file"
    /\ transfer' =
        IF ~ok THEN Thrown(transfer, "read")
        ELSE [transfer EXCEPT !.pc = "send_document"]
    /\ TransferUnchanged

\* the send of the document has completed.  index.ts: MessageMedia
\* .fromFilePath(finalFile) and client.sendMessage throw on failure, and the
\* unlink of finalFile follows the send inside the try block.  part_000:
\* sendMessage returns false and the try block ends.
DocumentSent(ok) ==
    /\ transfer.pc = "send_document"
    /\ transfer' =
        IF impl = "wwebjs"
        THEN IF ok
             THEN [Sent(transfer, ok, "Document") EXCEPT !.pc = "unlink_final"]
             ELSE Thrown(transfer, "forward")
        ELSE [Sent(transfer, ok, "Document") EXCEPT
                !.pc = "unlink_temp",
                !.cause = IF ok THEN @ ELSE "forward"]
    /\ TransferUnchanged

\* index.ts: try { await fs.unlink(finalFile); } catch (e) {}
FinalUnlinked ==
    /\ transfer.pc = "unlink_final"
    /\ transfer' = [transfer EXCEPT !.pc = "unlink_temp",
                                    !.files = @ \ {"final"}]
    /\ TransferUnchanged

\* catch (error): the send of the failure message has completed; in
\* index.ts a rejected send leaves the catch with its exception, after the
\* finally block
FailureSent(ok) ==
    /\ transfer.pc = "send_failed"
    /\ transfer' =
        [Sent(transfer, ok, "DownloadFailed") EXCEPT
            !.pc = "unlink_temp",
            !.rethrow = impl = "wwebjs" /\ ~ok]
    /\ TransferUnchanged

\* finally { try { await fs.unlink(tempFile); } catch (e) {} }
TempUnlinked ==
    /\ transfer.pc = "unlink_temp"
    /\ transfer' = [transfer EXCEPT
                        !.pc = IF transfer.rethrow THEN "threw"
                               ELSE "returned",
                        !.files = @ \ {"temp"}]
    /\ TransferUnchanged

InitTransfer ==
    /\ impl \in Impls
    /\ chatIds = {}
    /\ sessions = [c \in Chats |-> Undefined]
    /\ handlers = [h \in Handlers |-> Idle]
    /\ now = 0
    /\ last = NoStep
    /\ resolver = NotCalled
    /\ sender = NotSending
    /\ menu = NoMenu
    /\ transfer = [NoTransfer EXCEPT !.pc = "send_start"]

NextTransfer ==
    \/ \E ok \in BOOLEAN : StartingSent(ok)
    \/ \E o \in Fetches : Fetched(o)
    \/ \E n \in 1..MaxChunk : Data(n)
    \/ WriterFinished
    \/ WriterFailed
    \/ \E end \in {"pending", "crashed"} : SourceFailed(end)
    \/ \E ok \in BOOLEAN : CompleteSent(ok)
    \/ \E ok \in BOOLEAN : Renamed(ok)
    \/ \E ok \in BOOLEAN : FileRead(ok)
    \/ \E ok \in BOOLEAN : DocumentSent(ok)
    \/ FinalUnlinked
    \/ \E ok \in BOOLEAN : FailureSent(ok)
    \/ TempUnlinked

SpecTransfer == InitTransfer /\ [][NextTransfer]_vars

\* the percentages of the progress messages in `out`, in the order sent
ProgressMessages(out) == SelectSeq(out, LAMBDA m : m.kind = "Progress")
Percents(out) ==
    [k \in 1..Len(ProgressMessages(out)) |-> ProgressMessages(out)[k].body[1]]

Quarters == {25, 50, 75}
AllReceived(t) ==
    KnownTotal(t.totalBytes) /\ t.downloadedBytes = t.totalBytes[1]

\* C23: when the size is known and the percentage has passed through every
\* integer up to 100, the progress messages sent are 25, 50 and 75, once
\* each and in that order, and no other.
C23_QuarterReports ==
    (AllReceived(transfer) /\ transfer.everyPercent)
        => Percents(transfer.out) = <<25, 50, 75>>

\* C24: however the bytes are split into chunks, the percentages reported
\* are among 25, 50 and 75 and strictly increase along the sequence: none
\* appears twice, none is 0 or 100.
C24_ReportsIncrease ==
    LET percents == Percents(transfer.out) IN
    /\ \A k \in 1..Len(percents) : percents[k] \in Quarters
    /\ \A j, k \in 1..Len(percents) : j < k => percents[j] < percents[k]

\* 50 has been reported and a later chunk has left the percentage at 50
C24_Witness ==
    /\ transfer.pc = "stream"
    /\ KnownTotal(transfer.totalBytes)
    /\ Percents(transfer.out) = <<50>>
    /\ Progress(transfer.downloadedBytes, transfer.totalBytes[1]) = 50
    /\ Progress(transfer.downloadedBytes - 1, transfer.totalBytes[1]) = 50

\* C25: when the size is known, a chunk that takes the percentage from below
\* a quarter to that quarter or beyond it makes the quarter be reported.
C25_EachQuarterCrossed ==
    [][(transfer.pc = "stream" /\ transfer'.pc = "stream"
        /\ KnownTotal(transfer.totalBytes))
        => \A quarter \in Quarters :
            (/\ Progress(transfer.downloadedBytes, transfer.totalBytes[1])
                    < quarter
             /\ Progress(transfer'.downloadedBytes, transfer.totalBytes[1])
                    >= quarter)
            => \E k \in 1..Len(Percents(transfer'.out)) :
                /\ k > Len(Percents(transfer.out))
                /\ Percents(transfer'.out)[k] = quarter]_vars

\* C26: when the response has no content-length, or one that is 0 or not a
\* number, no progress message is ever sent, whatever chunks arrive.
NoTotal(header) ==
    \/ header = Undefined
    \/ header[1] = NaN
    \/ header[1][1] = 0

C26_NoTotalNoProgress ==
    NoTotal(transfer.header) => Percents(transfer.out) = <<>>

\* a response whose content-length is not a number has been received in
\* full, past the byte counts at which a known size reports, and forwarded
C26_Witness ==
    /\ transfer.pc = "returned"
    /\ transfer.header = Some(NaN)
    /\ transfer.downloadedBytes = MaxTotal
    /\ transfer.out =
        <<Reply("StartingDownload", <<>>), Reply("DownloadComplete", <<>>),
          Reply("Document", <<>>)>>

\* C27: when downloadAndSend has returned, on whichever path, neither the
\* staging file nor the renamed file it created is left.
Returned(t) == t.pc \in {"returned", "threw"}

C27_NoFileLeft == Returned(transfer) => transfer.files = {}

\* C28: when the request for the file fails, or the response stream or the
\* write of the staging file fails at any point, control reaches the catch
\* block, which sends the failure message; nothing is forwarded and the
\* staging file is gone when the call has ended.
StreamFailures == {"fetch", "write", "stream"}
Forwarded(out) ==
    \E k \in 1..Len(out) : out[k].kind = "Document"

C28_StreamFailureEndsInFailure ==
    /\ [][(/\ transfer.pc \in {"fetch", "stream"}
           /\ transfer'.cause \in StreamFailures)
          => transfer'.pc = "send_failed"]_vars
    /\ [][(/\ transfer.pc = "send_failed" /\ transfer' # transfer
           /\ transfer.cause \in StreamFailures)
          => \/ transfer'.out =
                    Append(transfer.out, Reply("DownloadFailed", <<>>))
             \/ transfer'.out = transfer.out /\ last' = last]_vars
    /\ [](transfer.cause \in StreamFailures => ~Forwarded(transfer.out))
    /\ []((transfer.cause \in StreamFailures /\ Returned(transfer))
            => transfer.files = {})

\* ------------------------------------------------- two conversations
\* Both conversations send messages.  The messages are the ones that reach
\* the session map: the search command and the replies 1 and 2; a search
\* returns nothing or two results, the Link Resolver nothing or one link.
InitTwo == InitCommon /\ chatIds = Chats
MessagesTwo ==
    {Msg("none", Text(TRUE, NaN, FALSE, "none"))}
    \cup {Msg("none", Text(FALSE, Some(n), FALSE, "none")) : n \in {1, 2}}
SearchOutcomesTwo == {<<>>, <<MovieSearchResult(1), MovieSearchResult(2)>>}
LinkOutcomesTwo == {<<>>, <<DownloadLink(1)>>}

NextTwo ==
    \/ \E h \in Handlers, c \in Chats, m \in MessagesTwo : Receive(h, c, m)
    \/ \E h \in Handlers, results \in SearchOutcomesTwo :
            SearchReturned(h, results)
    \/ \E h \in Handlers, links \in LinkOutcomesTwo : LinksReturned(h, links)
    \/ \E h \in Handlers, ok \in BOOLEAN : UriSent(h, ok)
    \/ \E h \in Handlers, ok \in BOOLEAN : StartSent(h, ok)
    \/ \E h \in Handlers, ok \in BOOLEAN : StreamEnded(h, ok)
    \/ Tick

SpecTwo == InitTwo /\ [][NextTwo]_vars

\* C16: a step of a handler of one conversation changes the session of no
\* other conversation, however the handlers of the two conversations
\* interleave.
C16_OtherSessionsUntouched ==
    [][\A c \in Chats : sessions'[c] # sessions[c] => last'.chat = c]_vars

\* the send of the URI of one conversation has just ended its session while
\* the other conversation has a session and a handler that still holds it
C16_Witness ==
    \E c \in Chats, d \in Chats, h \in Handlers :
        /\ c # d
        /\ last.chat = d /\ last.branch = "choice1"
        /\ last.status = "returned"
        /\ sessions[d] = Undefined
        /\ InState(c, "SEARCH_RESULTS")
        /\ handlers[h].chat = c /\ handlers[h].pc = "await_links"
        /\ handlers[h].sref = "current"


\* index.ts 116-125: finalFile is the last segment of item.url, cut at '?',
\* with .mp4 appended when it ends in neither .mp4 nor .mkv: a function of
\* the url (of the label too when the url ends in '/').  The links of this
\* model differ in their urls.
FinalFile(item) == item.url

\* C29: two calls of downloadAndSend in progress at the same time, for the
\* same conversation or for two, for the same link or for two, have
\* different staging files and, where the file is renamed (index.ts),
\* different final files.
C29_DistinctPaths ==
    \A h, k \in Handlers :
        (h # k /\ InTransfer(h) /\ InTransfer(k))
        => /\ handlers[h].tempFile # handlers[k].tempFile
           /\ impl = "wwebjs"
                => FinalFile(handlers[h].link[1]) # FinalFile(handlers[k].link[1])


\* ----------------------------------------------------------- sendMessage
\* One call of sendMessage(chatId, content, retries) of part_000.  `i` is
\* the loop index, `invocations` the calls of sock.sendMessage made,
\* `backoffs` the waits of 2000 ms made, `polls` the waits of 500 ms made by
\* the running waitForConnection(5000), `ev` what the step just taken was.
\* isConnected is the flag the connection.update listener sets.
MaxRetries == 4

DefaultRetries == 3
WaitTimeout == 5000
PollInterval == 500

SenderUnchanged ==
    UNCHANGED <<impl, chatIds, sessions, handlers, now, last, resolver, transfer,
                menu>>

\* for (let i = 0; i < retries; i++)
MoreAttemptsInclusive(i, retries) == i <= retries
MoreAttempts(i, retries) == i < retries

\* if (i < retries - 1) await new Promise(r => setTimeout(r, 2000))
NeedsBackoff(i, retries) == i < retries - 1

\* the loop from its test with index s.i up to the next await or the return
Iterate(s) ==
    IF ~MoreAttempts(s.i, s.retries)
    THEN [s EXCEPT !.pc = "returned", !.result = Some(FALSE)]
    ELSE IF ~s.isConnected
         THEN [s EXCEPT !.pc = "wait", !.polls = 0]
         ELSE [s EXCEPT !.pc = "sending", !.invocations = @ + 1]

\* const connected = await waitForConnection(5000) has given false:
\* `continue`
AfterTimeoutSend(s) ==
    [s EXCEPT !.pc = "sending", !.invocations = @ + 1, !.ev = "timeout"]
AfterTimeout(s) == Iterate([s EXCEPT !.i = @ + 1, !.ev = "timeout"])

\* a wait of 500 ms inside waitForConnection has ended.  `late` says that
\* Date.now() - startTime has reached the timeout; it has after
\* WaitTimeout / PollInterval waits at the latest.  A connection found lets
\* the attempt go on to the send; a timeout is `continue`.
Polled(late) ==
    /\ sender.pc = "wait"
    /\ LET s == [sender EXCEPT !.polls = @ + 1] IN
       sender' =
        IF s.isConnected
        THEN [s EXCEPT !.pc = "sending", !.invocations = @ + 1,
                       !.ev = "connected"]
        ELSE IF late \/ s.polls * PollInterval >= WaitTimeout
             THEN AfterTimeout(s)
             ELSE [s EXCEPT !.ev = "polled"]
    /\ SenderUnchanged

\* await sock.sendMessage(chatId, content) has resolved (return true) or
\* rejected (catch)
TransportDone(ok) ==
    /\ sender.pc = "sending"
    /\ sender' =
        IF ok
        THEN [sender EXCEPT !.pc = "returned", !.result = Some(TRUE),
                            !.ev = "sent"]
        ELSE IF NeedsBackoff(sender.i, sender.retries)
             THEN [sender EXCEPT !.pc = "backoff", !.backoffs = @ + 1,
                                 !.ev = "failed"]
             ELSE Iterate([sender EXCEPT !.i = @ + 1, !.ev = "failed"])
    /\ SenderUnchanged

\* the wait of 2000 ms has ended
BackoffEnded ==
    /\ sender.pc = "backoff"
    /\ sender' = Iterate([sender EXCEPT !.i = @ + 1, !.ev = "rested"])
    /\ SenderUnchanged

\* sock.ev.on('connection.update'): connection === 'open' / 'close'.
\* everOpen records that isConnected has been true at some time of the call.
ConnectionUpdate(open) ==
    /\ sender.pc \notin {"idle", "returned"}
    /\ sender.isConnected # open
    /\ sender' = [sender EXCEPT !.isConnected = open, !.ev = "connection",
                                !.everOpen = @ \/ open]
    /\ SenderUnchanged

InitSend ==
    /\ impl = "baileys"
    /\ chatIds = {}
    /\ sessions = [c \in Chats |-> Undefined]
    /\ handlers = [h \in Handlers |-> Idle]
    /\ now = 0
    /\ last = NoStep
    /\ resolver = NotCalled
    /\ transfer = NoTransfer
    /\ menu = NoMenu
    /\ \E retries \in 0..MaxRetries, isConnected \in BOOLEAN :
        sender = Iterate([NotSending EXCEPT !.retries = retries,
                                            !.isConnected = isConnected,
                                            !.everOpen = isConnected,
                                            !.ev = "called"])

SenderStep ==
    \/ \E late \in BOOLEAN : Polled(late)
    \/ \E ok \in BOOLEAN : TransportDone(ok)
    \/ BackoffEnded

NextSend ==
    \/ SenderStep
    \/ \E open \in BOOLEAN : ConnectionUpdate(open)

\* the timers fire and the send of the transport settles
SpecSend == InitSend /\ [][NextSend]_vars /\ WF_vars(SenderStep)

C39_ClosedConnection ==
    /\ [][(sender.pc = "wait" /\ sender'.ev = "timeout")
          => /\ sender'.i = sender.i + 1
             /\ sender'.invocations = sender.invocations
             /\ sender'.backoffs = sender.backoffs]_vars
    /\ [](~sender.everOpen => sender.invocations = 0)
    /\ []((sender.pc = "returned" /\ ~sender.everOpen)
            => sender.result = Some(FALSE))

\* the connection stayed closed through the default three attempts: each
\* waited for it in vain, none called the transport, and the call returned
\* false
C39_Witness ==
    /\ sender.pc = "returned"
    /\ ~sender.everOpen
    /\ sender.retries = DefaultRetries
    /\ sender.i = DefaultRetries
    /\ sender.ev = "timeout"
    /\ sender.invocations = 0
    /\ sender.result = Some(FALSE)


\* ------------------------------------------- the session under interleaving
\* C35: the timestamp of a session is the current time when the session is
\* created and whenever its stage changes; it never decreases; and the
\* replies that leave the stage as it is (invalid selection, no links found,
\* a delivery choice other than 1 and 2) leave the whole session, timestamp
\* included, as it was.
KeepsStage ==
    {"invalid_title", "invalid_link", "no_links", "choice_other"}

C35_Timestamp ==
    [][\A c \in Chats :
        /\ (/\ sessions'[c] # Undefined
            /\ \/ sessions[c] = Undefined
               \/ Stage(c)' # Stage(c)
               \/ (last'.chat = c /\ last'.branch = "results"))
           => sessions'[c][1].timestamp = now
        /\ (sessions[c] # Undefined /\ sessions'[c] # Undefined)
           => sessions'[c][1].timestamp >= sessions[c][1].timestamp
        /\ (last'.chat = c /\ last'.branch \in KeepsStage)
           => sessions'[c] = sessions[c]]_vars

\* after the clock has advanced, a link has been chosen and the session has
\* moved to DOWNLOAD_METHOD_SELECTION with the current time as timestamp
C35_Witness ==
    \E c \in Chats :
        /\ now > 0
        /\ last.chat = c /\ last.branch = "link_chosen"
        /\ InState(c, "DOWNLOAD_METHOD_SELECTION")
        /\ sessions[c][1].timestamp = now


\* C38: a search that comes back empty while the conversation has a session
\* leaves that session exactly as it was, and a number sent next is handled
\* as a selection in the stage that session is in.
StageBranches(stage) ==
    CASE stage = "SEARCH_RESULTS" -> {"invalid_title", "title"}
      [] stage = "EPISODE_SELECTION" -> {"invalid_link", "link_chosen"}
      [] stage = "DOWNLOAD_METHOD_SELECTION" ->
            {"choice1", "choice2", "choice_other"}
      [] OTHER -> {}

C38_EmptySearchKeepsSession ==
    /\ [][\A c \in Chats, h \in Handlers :
            (/\ Completed(h, c, "await_search") /\ last'.ret[1] = <<>>
             /\ sessions[c] # Undefined)
            => /\ sessions'[c] = sessions[c]
               /\ last'.branch = "no_results"]_vars
    /\ [][\A c \in Chats, m \in Messages :
            (/\ last.chat = c /\ last.branch = "no_results"
             /\ sessions[c] # Undefined
             /\ Routed(c, m) /\ NumericReply(m) /\ m.att = "none")
            => last'.branch \in StageBranches(Stage(c))]_vars

\* the empty search has just been answered and the session, which had
\* reached DOWNLOAD_METHOD_SELECTION before the search, is still there
C38_Witness ==
    \E c \in Chats :
        /\ last.chat = c /\ last.branch = "no_results"
        /\ last.ret = Some(<<>>)
        /\ InState(c, "DOWNLOAD_METHOD_SELECTION")
        /\ sessions[c][1].selectedLink # Undefined


\* C34: a session in EPISODE_SELECTION or DOWNLOAD_METHOD_SELECTION has a
\* non-empty lastLinks and a selectedMovie that is one of its lastResults,
\* and a session in DOWNLOAD_METHOD_SELECTION has a selectedLink that is one
\* of its present lastLinks, however the handlers of the conversation
\* interleave.
Elem(x, seq) == \E k \in 1..Len(seq) : seq[k] = x

C34_SessionConsistent ==
    \A c \in Chats :
        /\ (InState(c, "EPISODE_SELECTION")
                \/ InState(c, "DOWNLOAD_METHOD_SELECTION"))
           => /\ sessions[c][1].lastLinks # Undefined
              /\ Len(sessions[c][1].lastLinks[1]) > 0
              /\ sessions[c][1].selectedMovie # Undefined
              /\ Elem(sessions[c][1].selectedMovie[1],
                      sessions[c][1].lastResults)
        /\ InState(c, "DOWNLOAD_METHOD_SELECTION")
           => /\ sessions[c][1].selectedLink # Undefined
              /\ Elem(sessions[c][1].selectedLink[1],
                      sessions[c][1].lastLinks[1])

\* two title selections overlapped: the first resolution came back and a
\* link of it was chosen, then the second resolution came back, replaced
\* lastLinks by a list without that link and put the session back in
\* EPISODE_SELECTION
C34_Witness ==
    \E c \in Chats :
        /\ InState(c, "EPISODE_SELECTION")
        /\ last.chat = c /\ last.branch = "title_chosen"
        /\ sessions[c][1].selectedLink # Undefined
        /\ ~Elem(sessions[c][1].selectedLink[1], sessions[c][1].lastLinks[1])


\* C36: a reply 1 or 2 starts a terminal delivery (the send of the URI or a
\* transfer) for a session only if none has been started for that session
\* already.  A handler that waits for the send of the URI and still holds
\* the session of the map is a delivery under way for the present session.
DeliveryUnderWay(c) ==
    \E k \in Handlers :
        /\ handlers[k].chat = c
        /\ handlers[k].pc \in {"await_send_uri", "await_send_start",
                               "await_stream"}
        /\ handlers[k].sref = "current"

C36_OneTerminalDelivery ==
    [][\A c \in Chats, m \in Messages :
        (Routed(c, m) /\ last'.branch \in {"choice1", "choice2"})
        => ~DeliveryUnderWay(c)]_vars

\* C37: when the session a link resolution started from has been replaced
\* by a new search or deleted by a terminal action before the resolution
\* completes, the completion changes no session: the new session keeps its
\* stage and data, and no session is created.
C37_LateResolution ==
    [][\A c \in Chats, h \in Handlers :
        (Completed(h, c, "await_links") /\ handlers[h].sref = "detached")
        => sessions' = sessions]_vars

\* a resolution has just come back with links and has sent its menu, and the
\* conversation is in SEARCH_RESULTS: the session is the one a later search
\* created
C37_Witness ==
    \E c \in Chats :
        /\ last.chat = c /\ last.branch = "title_chosen"
        /\ Len(last.ret[1]) > 0
        /\ InState(c, "SEARCH_RESULTS")
        /\ sessions[c][1].lastLinks = Undefined

-----------------------------------------------------------------------------
\* C31: a failure to forward the completed file never ends silently: when
\* the send of the document has failed, control reaches the catch block,
\* whose step sends the failure message to the conversation.
C31_ForwardFailureReported ==
    [][(/\ transfer.pc = "send_document"
        /\ transfer'.cause = "forward")
       => transfer'.pc = "send_failed"]_vars

-----------------------------------------------------------------------------
\* Termination of downloadAndSend.  The steps the process itself takes (the
\* sends, the rename, the read of the file, the unlinks) complete when they
\* are due; the completions of the request and of the stream are the
\* upstream's: the request is made without a `timeout` option and nothing
\* in the code ends a stream that has stopped delivering, so no step of the
\* program stands for the expiry of a time limit.
LocalStep ==
    \/ \E ok \in BOOLEAN : StartingSent(ok)
    \/ \E ok \in BOOLEAN : CompleteSent(ok)
    \/ \E ok \in BOOLEAN : Renamed(ok)
    \/ \E ok \in BOOLEAN : FileRead(ok)
    \/ \E ok \in BOOLEAN : DocumentSent(ok)
    \/ FinalUnlinked
    \/ \E ok \in BOOLEAN : FailureSent(ok)
    \/ TempUnlinked

SpecTransferLive ==
    InitTransfer /\ [][NextTransfer]_vars /\ WF_vars(LocalStep)

\* C32: every call of downloadAndSend eventually returns, with a result or
\* with a failure, also when the upstream never answers the request or
\* stops delivering in the middle of the stream.
C32_TransferReturns == <>Returned(transfer)

-----------------------------------------------------------------------------
\* The display label of a line of the link menu (index.ts 265-292,
\* part_000 337-359).  A string is the sequence of its characters.
MaxLabelParts == 2
MaxTitleParts == 2
MaxPosition == 1
MaxEvaluations == 2

UpperCase ==
    <<"A", "B", "C", "D", "E", "F", "G", "H", "I", "J", "K", "L", "M",
      "N", "O", "P", "Q", "R", "S", "T", "U", "V", "W", "X", "Y", "Z">>
LowerCase ==
    <<"a", "b", "c", "d", "e", "f", "g", "h", "i", "j", "k", "l", "m",
      "n", "o", "p", "q", "r", "s", "t", "u", "v", "w", "x", "y", "z">>
DigitChars == <<"0", "1", "2", "3", "4", "5", "6", "7", "8", "9">>

\* String.prototype.toLowerCase, and the folding the i flag applies
Lower(ch) ==
    IF \E k \in 1..Len(UpperCase) : UpperCase[k] = ch
    THEN LowerCase[CHOOSE k \in 1..Len(UpperCase) : UpperCase[k] = ch]
    ELSE ch
LowerCased(str) == [k \in 1..Len(str) |-> Lower(str[k])]

\* \s and \d
IsSpace(ch) == ch = " "
IsDigit(ch) == \E k \in 1..Len(DigitChars) : DigitChars[k] = ch

\* where the longest run of \s (of \d) that starts at p ends: the index
\* after its last character
SpacesEnd(str, p) ==
    CHOOSE q \in p..(Len(str) + 1) :
        /\ \A k \in p..(q - 1) : IsSpace(str[k])
        /\ q = Len(str) + 1 \/ ~IsSpace(str[q])
DigitsEnd(str, p) ==
    CHOOSE q \in p..(Len(str) + 1) :
        /\ \A k \in p..(q - 1) : IsDigit(str[k])
        /\ q = Len(str) + 1 \/ ~IsDigit(str[q])

\* the lower-case word stands at index p of str, whatever the case there
WordAt(str, p, word) ==
    /\ p + Len(word) - 1 <= Len(str)
    /\ \A k \in 1..Len(word) : Lower(str[p + k - 1]) = word[k]

Least(ps) == CHOOSE p \in ps : \A q \in ps : p <= q

\* /[Ss](?:eason)?\s*(\d+)/i and /[Ee](?:pisode)?\s*(\d+)/i tried at index
\* p: the letter, the rest of the word if it stands there, the spaces, then
\* the digits.  Giving back the optional word or a space never lets the
\* digits match, so the greedy attempt decides.
NumberFrom(str, p, word) ==
    LET a == IF WordAt(str, p + 1, Tail(word))
             THEN p + Len(word) ELSE p + 1
    IN SpacesEnd(str, a)
NumberAt(str, p, word) ==
    /\ Lower(str[p]) = Head(word)
    /\ DigitsEnd(str, NumberFrom(str, p, word)) > NumberFrom(str, p, word)

\* str.match(re): the leftmost match; [1] is its group, the digits
Match(str, word) ==
    LET ps == {p \in 1..Len(str) : NumberAt(str, p, word)}
        c == NumberFrom(str, Least(ps), word)
    IN IF ps = {} THEN Undefined
       ELSE Some(SubSeq(str, c, DigitsEnd(str, c) - 1))

\* parseInt of a run of digits, and the number put back into a template
RECURSIVE ParseInt(_)
ParseInt(digits) ==
    IF digits = <<>> THEN 0
    ELSE 10 * ParseInt(SubSeq(digits, 1, Len(digits) - 1))
         + ((CHOOSE k \in 1..Len(DigitChars) :
                DigitChars[k] = digits[Len(digits)]) - 1)
RECURSIVE NumberToString(_)
NumberToString(n) ==
    IF n < 10 THEN <<DigitChars[n + 1]>>
    ELSE NumberToString(n \div 10) \o <<DigitChars[(n % 10) + 1]>>

\* String.prototype.trim
Trim(str) ==
    LET ks == {k \in 1..Len(str) : ~IsSpace(str[k])}
    IN IF ks = {} THEN <<>>
       ELSE SubSeq(str, Least(ks),
                   CHOOSE k \in ks : \A j \in ks : j <= k)

\* .replace(/\s+/g, ' ')
RECURSIVE CollapseSpaces(_)
CollapseSpaces(str) ==
    IF str = <<>> THEN <<>>
    ELSE IF IsSpace(Head(str))
         THEN <<" ">> \o CollapseSpaces(
                            SubSeq(str, SpacesEnd(str, 1), Len(str)))
         ELSE <<Head(str)>> \o CollapseSpaces(Tail(str))

\* movie.title.replace(/\s*[Ss](\d+).*/i, '').trim(): the title is cut at
\* the leftmost place where spaces, an s and a digit follow one another
DisplayTitle(title) ==
    LET ps == {p \in 1..Len(title) :
                  LET c == SpacesEnd(title, p) IN
                  /\ c + 1 <= Len(title)
                  /\ Lower(title[c]) = "s"
                  /\ IsDigit(title[c + 1])}
    IN Trim(IF ps = {} THEN title ELSE SubSeq(title, 1, Least(ps) - 1))

\* .replace(/download/gi, '')
Download == <<"d", "o", "w", "n", "l", "o", "a", "d">>
RECURSIVE RemoveDownload(_)
RemoveDownload(str) ==
    IF str = <<>> THEN <<>>
    ELSE IF WordAt(str, 1, Download)
         THEN RemoveDownload(SubSeq(str, Len(Download) + 1, Len(str)))
         ELSE <<Head(str)>> \o RemoveDownload(Tail(str))

\* .replace(/\.(mkv|mp4|html|nkiri|com)/gi, ' ')
Extensions ==
    {<<"m", "k", "v">>, <<"m", "p", "4">>, <<"h", "t", "m", "l">>,
     <<"n", "k", "i", "r", "i">>, <<"c", "o", "m">>}
RECURSIVE ReplaceExtensions(_)
ReplaceExtensions(str) ==
    IF str = <<>> THEN <<>>
    ELSE IF Head(str) = "." /\ \E ext \in Extensions : WordAt(str, 2, ext)
         THEN LET ext == CHOOSE x \in Extensions : WordAt(str, 2, x)
              IN <<" ">> \o ReplaceExtensions(
                                SubSeq(str, Len(ext) + 2, Len(str)))
         ELSE <<Head(str)>> \o ReplaceExtensions(Tail(str))

\* .replace(/[._-]/g, ' ')
ReplaceSeparators(str) ==
    [k \in 1..Len(str) |->
        IF str[k] \in {".", "_", "-"} THEN " " ELSE str[k]]

\* the else branch's first statement
Cleaned(label) ==
    Trim(ReplaceSeparators(ReplaceExtensions(RemoveDownload(label))))

\* String.prototype.includes
Includes(str, part) ==
    \E p \in 1..(Len(str) + 1) :
        /\ p + Len(part) - 1 <= Len(str)
        /\ SubSeq(str, p, p + Len(part) - 1) = part

\* `${displayTitle} ${season ? 'S' + season : ''} Episode ${i + 1}`
EpisodeLabel(sMatch, i, title) ==
    LET season == IF sMatch # Undefined THEN ParseInt(sMatch[1]) ELSE 0
    IN CollapseSpaces(
           DisplayTitle(title) \o <<" ">>
           \o (IF season # 0 THEN <<"S">> \o NumberToString(season) ELSE <<>>)
           \o <<" ", "E", "p", "i", "s", "o", "d", "e", " ">>
           \o NumberToString(i + 1))

\* the else branch without its test for the title
CleanLabelBare(label, i, title) ==
    IF Match(label, <<"e", "p", "i", "s", "o", "d", "e">>) # Undefined
    THEN EpisodeLabel(Match(label, <<"s", "e", "a", "s", "o", "n">>),
                      i, title)
    ELSE Cleaned(label)

\* the body of links.forEach((l, i) => ...): the label of line i
CleanLabel(label, i, title) ==
    IF Match(label, <<"e", "p", "i", "s", "o", "d", "e">>) # Undefined
    THEN EpisodeLabel(Match(label, <<"s", "e", "a", "s", "o", "n">>),
                      i, title)
    ELSE IF Includes(LowerCased(Cleaned(label)), LowerCased(title))
         THEN Cleaned(label)
         ELSE title \o <<" ", "-", " ">> \o Cleaned(label) \o <<" ">>
              \o NumberToString(i + 1)

\* the raw labels and the titles tried: what up to MaxLabelParts
\* (MaxTitleParts) of these pieces spell
LabelParts ==
    {<<"S", "1">>, <<"S", "0">>, <<"E", "1">>,
     <<"E", "p", "i", "s", "o", "d", "e", " ", "2">>,
     <<"D", "o", "w", "n", "l", "o", "a", "d">>,
     <<".", "m", "k", "v">>, <<"-">>, <<"x">>}
TitleParts == {<<"X">>, <<" ">>, <<"S", "1">>, <<"y">>}
RECURSIVE Strings(_, _)
Strings(parts, n) ==
    IF n = 0 THEN {<<>>}
    ELSE Strings(parts, n - 1)
         \cup {str \o part : str \in Strings(parts, n - 1), part \in parts}
RawLabels == Strings(LabelParts, MaxLabelParts)
ParentTitles == Strings(TitleParts, MaxTitleParts) \ {<<>>}

\* one more evaluation of the label of the line
LabelBuilt ==
    /\ Len(menu.lines) < MaxEvaluations
    /\ menu' = [menu EXCEPT !.lines =
                    Append(@, CleanLabel(menu.label, menu.i, menu.title))]
    /\ UNCHANGED <<impl, chatIds, sessions, handlers, now, last, resolver,
                   transfer, sender>>

\* the two controllers build the label with the same text
InitMenu ==
    /\ impl = "wwebjs"
    /\ chatIds = {}
    /\ sessions = [c \in Chats |-> Undefined]
    /\ handlers = [h \in Handlers |-> Idle]
    /\ now = 0
    /\ last = NoStep
    /\ resolver = NotCalled
    /\ transfer = NoTransfer
    /\ sender = NotSending
    /\ menu \in [label : RawLabels, title : ParentTitles, i : 0..MaxPosition,
                 lines : {<<>>}]

NextMenu == LabelBuilt

SpecMenu == InitMenu /\ [][NextMenu]_vars

====
